---- MODULE Spec2Model ----
(***************************************************************************)
(* A model of the email-triage cycle engine                                *)
(* (scripts/jmap/triage_cycle.py, scripts/daemon.py, src/common.py).       *)
(*                                                                         *)
(* The state is the SQLite state store (the connection's view of the four  *)
(* tables and what is committed on disk), the remote MailStore (which      *)
(* messages are still in the inbox, which drafts exist), and the position  *)
(* of the cycle loop.  One action models one pass of the `for email in     *)
(* emails` loop of process_one_cycle, or one whole handler outside it.     *)
(*                                                                         *)
(* Text values are modelled as sequences of tokens (a reason is the        *)
(* sequence of its parts, a reply is the sequence of its lines), so that   *)
(* prefixing, suffixing and signature handling are computed, not assumed.  *)
(***************************************************************************)
EXTENDS Naturals, Integers, Sequences, FiniteSets, TLC

----------------------------------------------------------------------------
(* Bounds of the model.                                                    *)

\* process invocations in a behaviour: cycle attempts plus operator commands
MaxInvocations == 2

\* tokens in an address string given to normalize_vip_address
MaxAddressTokens == 3

\* lines in a reply text given to append_drafting_signature
MaxReplyLines == 3

----------------------------------------------------------------------------
(* Generic helpers.                                                        *)

Last(s) == s[Len(s)]

IsSuffix(suf, s) ==
    /\ Len(suf) <= Len(s)
    /\ SubSeq(s, Len(s) - Len(suf) + 1, Len(s)) = suf

RECURSIVE FilterSeq(_, _)
FilterSeq(s, keep) ==
    IF s = <<>> THEN <<>>
    ELSE IF Head(s) \in keep THEN <<Head(s)>> \o FilterSeq(Tail(s), keep)
    ELSE FilterSeq(Tail(s), keep)


----------------------------------------------------------------------------
(* Priorities.                                                             *)

VALID_PRIORITIES == {"low", "medium", "high"}

\* PRIORITY_ORDER.get(p, PRIORITY_ORDER[dflt])
PRIORITY_ORDER(p, dflt) ==
    LET rank(q) == CASE q = "low" -> 1 [] q = "medium" -> 2 [] q = "high" -> 3 [] OTHER -> 0
    IN IF p \in VALID_PRIORITIES THEN rank(p) ELSE rank(dflt)

VIP_SOURCE_CONFIG == "config"
VIP_SOURCE_MANUAL == "manual"
VIP_SOURCE_AUTO == "auto_frequency"

----------------------------------------------------------------------------
(* Text.  A string is a sequence of tokens: a token is a run of ordinary  *)
(* lower-case characters, or one of the special tokens below.             *)

SPACE == " "
LT == "<"
GT == ">"
MAILTO == "mailto:"

\* str.lower() on one token
LowerTok(t) ==
    CASE t = "ALICE@EXAMPLE.COM" -> "alice@example.com"
      [] t = "ME@EXAMPLE.COM" -> "me@example.com"
      [] t = "MAILTO:" -> MAILTO
      [] t = "HIGH" -> "high"
      [] t = "Low" -> "low"
      [] OTHER -> t

Lower(s) == [i \in DOMAIN s |-> LowerTok(s[i])]

RECURSIVE LStrip(_)
LStrip(s) == IF s # <<>> /\ Head(s) = SPACE THEN LStrip(Tail(s)) ELSE s

RECURSIVE RStrip(_)
RStrip(s) == IF s # <<>> /\ Last(s) = SPACE THEN RStrip(SubSeq(s, 1, Len(s) - 1)) ELSE s

Strip(s) == RStrip(LStrip(s))

\* str.rfind(tok): the last position of tok, 0 when absent
RFind(s, tok) ==
    LET hits == {i \in DOMAIN s : s[i] = tok}
    IN IF hits = {} THEN 0 ELSE CHOOSE i \in hits : \A j \in hits : j <= i

\* "@" in s
HasAt(s) == \E i \in DOMAIN s : s[i] \in {"alice@example.com", "me@example.com",
                "noreply@updates.example.com", "other@example.com", "@"}

normalize_vip_address(value) ==
    LET normalized == Lower(Strip(value))
        unprefixed == IF normalized # <<>> /\ Head(normalized) = MAILTO
                      THEN Tail(normalized) ELSE normalized
        lt == RFind(unprefixed, LT)
        gt == RFind(unprefixed, GT)
    IN IF normalized = <<>> THEN <<>>
       ELSE IF lt # 0 /\ gt # 0 /\ gt > lt
            THEN Strip(SubSeq(unprefixed, lt + 1, gt - 1))
            ELSE unprefixed

----------------------------------------------------------------------------
(* Addresses and messages of the modelled mailbox.                         *)

Me == <<"me@example.com">>
Alice == <<"alice@example.com">>
News == <<"noreply@updates.example.com">>
Other == <<"other@example.com">>
NoAddress == <<>>

\* "noreply" / "no-reply" / "notification" occurs in the sender address
LowSignalSender(addr) == addr = News

\* A message as returned by Email/get.  The text of subject and body is
\* represented by what the classifier's searches find in it:
\* urgent (a configured urgent keyword occurs), request (a "?" or an
\* ACTION_PATTERNS match), lowsignal (a LOW_SIGNAL_PATTERNS match).
Email1 == [id |-> "m1", subject |-> "Question", from |-> <<"ALICE@EXAMPLE.COM">>,
           to |-> {Me}, cc |-> {},
           urgent |-> FALSE, request |-> TRUE, lowsignal |-> FALSE]
Email2 == [id |-> "m2", subject |-> "Weekly digest", from |-> News,
           to |-> {Other}, cc |-> {},
           urgent |-> FALSE, request |-> FALSE, lowsignal |-> TRUE]
Email3 == [id |-> "m3", subject |-> "Follow up", from |-> Alice,
           to |-> {Other}, cc |-> {Me},
           urgent |-> FALSE, request |-> TRUE, lowsignal |-> FALSE]
\* a message object without an id
EmailNoId == [id |-> "", subject |-> "", from |-> Alice, to |-> {Me}, cc |-> {},
              urgent |-> FALSE, request |-> FALSE, lowsignal |-> FALSE]

\* the order Email/query returns them in (receivedAt descending)
Mailbox == <<Email1, Email2, Email3, EmailNoId>>
MessageIds == {"m1", "m2", "m3"}

\* draft_id = None
NoDraft == 0

----------------------------------------------------------------------------
(* Configuration.                                                          *)

\* a key that the configuration file does not set
Unset == "<unset>"

\* dict.setdefault / dict.get(key, default)
SetDefault(raw, dflt) == IF raw = Unset THEN dflt ELSE raw

\* truthiness of a yes/no option
Truthy(v) == v = "yes"

Canon(v) == LowerTok(v)

\* variant: an explicit empty list is taken as unset and gives the boolean default
normalize_automation_settings_EmptyIsUnset(config) ==
    LET low_flag == Truthy(SetDefault(config.auto_archive_low_priority, "yes"))
        dflt == IF low_flag THEN {"low", "medium"} ELSE {}
        raw == config.auto_archive_priorities
        a1 == IF raw.kind = "none" \/ raw.items = {} THEN [kind |-> "list", items |-> dflt]
              ELSE raw
        a2 == IF a1.kind = "str" THEN [kind |-> "list", items |-> a1.items] ELSE a1
        a3 == IF a2.kind # "list" THEN [kind |-> "list", items |-> dflt] ELSE a2
    IN [auto_draft |-> Truthy(SetDefault(config.auto_draft, "yes")),
        auto_archive_low_priority |-> low_flag,
        draft_actionable_only |-> Truthy(SetDefault(config.draft_actionable_only, "yes")),
        min_priority_for_draft |-> SetDefault(config.min_priority_for_draft, "high"),
        use_codex |-> Truthy(SetDefault(config.use_codex, "yes")),
        codex_fallback_to_rules |-> Truthy(SetDefault(config.codex_fallback_to_rules, "yes")),
        loop_interval_seconds |-> SetDefault(config.loop_interval_seconds, "900"),
        auto_archive_priorities |-> {Canon(v) : v \in {w \in a3.items : Canon(w) \in VALID_PRIORITIES}}]

normalize_automation_settings(config) ==
    LET low_flag == Truthy(SetDefault(config.auto_archive_low_priority, "yes"))
        dflt == IF low_flag THEN {"low", "medium"} ELSE {}
        raw == config.auto_archive_priorities
        a1 == IF raw.kind = "none" THEN [kind |-> "list", items |-> dflt] ELSE raw
        a2 == IF a1.kind = "str" THEN [kind |-> "list", items |-> a1.items] ELSE a1
        a3 == IF a2.kind # "list" THEN [kind |-> "list", items |-> dflt] ELSE a2
    IN [auto_draft |-> Truthy(SetDefault(config.auto_draft, "yes")),
        auto_archive_low_priority |-> low_flag,
        draft_actionable_only |-> Truthy(SetDefault(config.draft_actionable_only, "yes")),
        min_priority_for_draft |-> SetDefault(config.min_priority_for_draft, "high"),
        use_codex |-> Truthy(SetDefault(config.use_codex, "yes")),
        codex_fallback_to_rules |-> Truthy(SetDefault(config.codex_fallback_to_rules, "yes")),
        loop_interval_seconds |-> SetDefault(config.loop_interval_seconds, "900"),
        auto_archive_priorities |-> {Canon(v) : v \in {w \in a3.items : Canon(w) \in VALID_PRIORITIES}}]

configured_sender_identities(config) ==
    {normalize_vip_address(v) : v \in config.sender_emails} \ {<<>>}

email_targets_sender_identity(email, sender_identities, include_cc) ==
    LET recipients == IF include_cc THEN email.to \cup email.cc ELSE email.to
    IN /\ sender_identities # {}
       /\ \E person \in recipients :
             /\ normalize_vip_address(person) # <<>>
             /\ normalize_vip_address(person) \in sender_identities

get_vip_frequency_threshold(config) ==
    IF config.vip_frequency_threshold < 0 THEN 0 ELSE config.vip_frequency_threshold

----------------------------------------------------------------------------
(* Rule classifier.                                                        *)

\* str(from[0].email).strip().lower()
SenderEmailOf(email) == Lower(Strip(email.from))

\* "; ".join(dict.fromkeys(reasons)): the reasons that fired, in order
SelectReasons(flags) ==
    LET pick(b, r) == IF b THEN <<r>> ELSE <<>>
    IN pick(flags[1], "VIP sender")
       \o pick(flags[2], "sent to configured sender address")
       \o pick(flags[3], "urgent keywords")
       \o pick(flags[4], "contains request/question language")
       \o pick(flags[5], "low-signal/newsletter indicators")

\* variant: a low-signal message is low whatever else holds
classify_priority_LowSignalFirst(email, config, vip_senders) ==
    LET sender_email == SenderEmailOf(email)
        is_vip == sender_email # <<>> /\ sender_email \in vip_senders
        sent_to_sender_identity ==
            email_targets_sender_identity(email, configured_sender_identities(config), TRUE)
        keyword_hits == email.urgent
        actionable == email.request
        low_signal == (sender_email # <<>> /\ LowSignalSender(sender_email)) \/ email.lowsignal
        reasons == SelectReasons(<<is_vip, sent_to_sender_identity, keyword_hits,
                                   actionable, low_signal>>)
        priority == IF low_signal THEN "low"
                    ELSE IF is_vip \/ keyword_hits \/ sent_to_sender_identity THEN "high"
                    ELSE IF actionable THEN "medium"
                    ELSE "low"
    IN [priority |-> priority,
        actionable |-> actionable,
        reason |-> IF reasons # <<>> THEN reasons
                   ELSE <<"default low-priority classification">>,
        summary |-> <<"From">> \o email.from \o <<"about", email.subject>>]

classify_priority(email, config, vip_senders) ==
    LET sender_email == SenderEmailOf(email)
        is_vip == sender_email # <<>> /\ sender_email \in vip_senders
        sent_to_sender_identity ==
            email_targets_sender_identity(email, configured_sender_identities(config), TRUE)
        keyword_hits == email.urgent
        actionable == email.request
        low_signal == (sender_email # <<>> /\ LowSignalSender(sender_email)) \/ email.lowsignal
        reasons == SelectReasons(<<is_vip, sent_to_sender_identity, keyword_hits,
                                   actionable, low_signal>>)
        priority == IF is_vip \/ keyword_hits \/ sent_to_sender_identity THEN "high"
                    ELSE IF actionable /\ ~low_signal THEN "medium"
                    ELSE "low"
    IN [priority |-> priority,
        actionable |-> actionable,
        reason |-> IF reasons # <<>> THEN reasons
                   ELSE <<"default low-priority classification">>,
        summary |-> <<"From">> \o email.from \o <<"about", email.subject>>]

----------------------------------------------------------------------------
(* Reply composer.  A reply is the sequence of its lines.                  *)

IsBlankLine(l) == l \in {"", " "}

\* re.match(r"^--\s*$", line.strip())
IsDashLine(l) == l \in {"--", "-- "}

\* line.strip().lower().startswith(marker) for a marker of signature_markers
StartsWithMarker(l) ==
    l \in {"Thanks for your email about the subject. I received this and I am prioritizing it now.",
           "Thanks for the note about the subject. I received it and will review it shortly.",
           "Thanks for sharing this update about the subject.",
           "Thanks,", "Best,", "Best regards", "Sent from my phone"}

\* str.rstrip() of a text: trailing blank lines go
RECURSIVE RStripLines(_)
RStripLines(lines) ==
    IF lines # <<>> /\ IsBlankLine(Last(lines))
    THEN RStripLines(SubSeq(lines, 1, Len(lines) - 1))
    ELSE lines

\* while idx > 0 and lines[idx - 1].strip(): idx -= 1   (idx is 1-based here)
RECURSIVE ParagraphStart(_, _)
ParagraphStart(lines, idx) ==
    IF idx > 1 /\ ~IsBlankLine(lines[idx - 1]) THEN ParagraphStart(lines, idx - 1) ELSE idx

_strip_trailing_signature(text) ==
    LET lines == text
        dashes == {i \in DOMAIN lines : IsDashLine(lines[i])}
        marks == {i \in DOMAIN lines : StartsWithMarker(lines[i])}
        lastOf(S) == CHOOSE i \in S : \A j \in S : j <= i
    IN IF lines = <<>> THEN text
       ELSE IF dashes # {}
            THEN RStripLines(SubSeq(lines, 1, lastOf(dashes) - 1))
       ELSE IF marks # {}
            THEN RStripLines(SubSeq(lines, 1, ParagraphStart(lines, lastOf(marks)) - 1))
       ELSE text

append_drafting_signature(reply_text, config) ==
    LET signature == RStripLines(config.signature)
        normalized_reply == RStripLines(reply_text)
        body_without_signature == _strip_trailing_signature(normalized_reply)
    IN IF signature = <<>> THEN reply_text
       ELSE IF normalized_reply = <<>> THEN signature
       ELSE IF IsSuffix(signature, body_without_signature) THEN body_without_signature
       ELSE IF body_without_signature = <<>> THEN signature
       ELSE RStripLines(body_without_signature) \o <<"">> \o signature

compose_auto_reply(email, priority, config) ==
    LET first_line ==
            IF priority = "high"
            THEN "Thanks for your email about the subject. I received this and I am prioritizing it now."
            ELSE IF priority = "medium"
            THEN "Thanks for the note about the subject. I received it and will review it shortly."
            ELSE "Thanks for sharing this update about the subject."
        second_line ==
            IF priority = "high" THEN "I will follow up shortly with a full response."
            ELSE IF priority = "medium"
            THEN "I will send a full response after I have gone through the details."
            ELSE "I have received it and will follow up if anything is needed from my side."
    IN append_drafting_signature(<<first_line, "", second_line>>, config)

----------------------------------------------------------------------------
(* LLM assistant.                                                          *)

\* What the provider call produces: kind "error" is a transport, HTTP,
\* timeout or parse failure; kind "json" is a parsed JSON object.
CodexResponses ==
    { [kind |-> "error", priority |-> "", actionable |-> "", reason |-> <<>>,
       reply_text |-> <<>>],
      [kind |-> "json", priority |-> "HIGH", actionable |-> "bool:true",
       reason |-> <<"needs an answer">>, reply_text |-> <<"Will do.", "", "Thanks,", "Me">>],
      [kind |-> "json", priority |-> "low", actionable |-> "no",
       reason |-> <<>>, reply_text |-> <<>>],
      [kind |-> "json", priority |-> "urgent", actionable |-> "yes",
       reason |-> <<"very urgent">>, reply_text |-> <<"On it.">>] }

\* variant: the priority of the response is adopted whatever it is
normalize_codex_triage_result_AnyPriority(parsed, fallback_reply) ==
    LET priority == LowerTok(parsed.priority)
    IN [raised |-> FALSE, error |-> "",
        priority |-> priority,
        actionable |-> IF parsed.actionable \in {"bool:true", "bool:false"}
                       THEN parsed.actionable = "bool:true"
                       ELSE parsed.actionable \in {"1", "true", "yes", "y"},
        reason |-> IF parsed.reason # <<>> THEN parsed.reason ELSE <<"Codex triage">>,
        summary |-> <<"Email triaged by Codex", priority>>,
        reply_text |-> IF RStripLines(parsed.reply_text) # <<>>
                       THEN RStripLines(parsed.reply_text) ELSE fallback_reply]

normalize_codex_triage_result(parsed, fallback_reply) ==
    LET priority == LowerTok(parsed.priority)
    IN IF priority \notin VALID_PRIORITIES
       THEN [raised |-> TRUE, error |-> "Invalid priority from Codex"]
       ELSE [raised |-> FALSE, error |-> "",
             priority |-> priority,
             actionable |-> IF parsed.actionable \in {"bool:true", "bool:false"}
                            THEN parsed.actionable = "bool:true"
                            ELSE parsed.actionable \in {"1", "true", "yes", "y"},
             reason |-> IF parsed.reason # <<>> THEN parsed.reason ELSE <<"Codex triage">>,
             summary |-> <<"Email triaged by Codex", priority>>,
             reply_text |-> IF RStripLines(parsed.reply_text) # <<>>
                            THEN RStripLines(parsed.reply_text) ELSE fallback_reply]

\* CodexClient.triage_email / CodexSubscriptionClient.triage_email
triage_email(response, fallback_reply) ==
    IF response.kind = "error"
    THEN [raised |-> TRUE, error |-> "Codex network error"]
    ELSE normalize_codex_triage_result(response, fallback_reply)

\* variant: the fallback drops the provider's error from the reason
apply_codex_intelligence_NoErrorNote(config, automation, codex_client, response, rule, rule_reply) ==
    LET result == triage_email(response, rule_reply)
    IN IF ~codex_client
       THEN [raised |-> FALSE, priority |-> rule.priority, actionable |-> rule.actionable,
             reason |-> <<"[rules]">> \o rule.reason, summary |-> rule.summary,
             reply_text |-> append_drafting_signature(rule_reply, config),
             source |-> "rules"]
       ELSE IF ~result.raised
       THEN [raised |-> FALSE, priority |-> result.priority, actionable |-> result.actionable,
             reason |-> <<"[codex]">> \o result.reason, summary |-> result.summary,
             reply_text |-> append_drafting_signature(result.reply_text, config),
             source |-> "codex"]
       ELSE IF automation.codex_fallback_to_rules
       THEN [raised |-> FALSE, priority |-> rule.priority, actionable |-> rule.actionable,
             reason |-> <<"[rules-fallback]">> \o rule.reason,
             summary |-> rule.summary,
             reply_text |-> append_drafting_signature(rule_reply, config),
             source |-> "rules_fallback"]
       ELSE [raised |-> TRUE, error |-> result.error]

\* variant: the fallback is taken whatever codex_fallback_to_rules says
apply_codex_intelligence_AlwaysFallback(config, automation, codex_client, response, rule, rule_reply) ==
    LET result == triage_email(response, rule_reply)
    IN IF ~codex_client
       THEN [raised |-> FALSE, priority |-> rule.priority, actionable |-> rule.actionable,
             reason |-> <<"[rules]">> \o rule.reason, summary |-> rule.summary,
             reply_text |-> append_drafting_signature(rule_reply, config),
             source |-> "rules"]
       ELSE IF ~result.raised
       THEN [raised |-> FALSE, priority |-> result.priority, actionable |-> result.actionable,
             reason |-> <<"[codex]">> \o result.reason, summary |-> result.summary,
             reply_text |-> append_drafting_signature(result.reply_text, config),
             source |-> "codex"]
       ELSE [raised |-> FALSE, priority |-> rule.priority, actionable |-> rule.actionable,
             reason |-> <<"[rules-fallback]">> \o rule.reason
                        \o <<"; codex_error=", result.error>>,
             summary |-> rule.summary,
             reply_text |-> append_drafting_signature(rule_reply, config),
             source |-> "rules_fallback"]

apply_codex_intelligence(config, automation, codex_client, response, rule, rule_reply) ==
    LET result == triage_email(response, rule_reply)
    IN IF ~codex_client
       THEN [raised |-> FALSE, priority |-> rule.priority, actionable |-> rule.actionable,
             reason |-> <<"[rules]">> \o rule.reason, summary |-> rule.summary,
             reply_text |-> append_drafting_signature(rule_reply, config),
             source |-> "rules"]
       ELSE IF ~result.raised
       THEN [raised |-> FALSE, priority |-> result.priority, actionable |-> result.actionable,
             reason |-> <<"[codex]">> \o result.reason, summary |-> result.summary,
             reply_text |-> append_drafting_signature(result.reply_text, config),
             source |-> "codex"]
       ELSE IF automation.codex_fallback_to_rules
       THEN [raised |-> FALSE, priority |-> rule.priority, actionable |-> rule.actionable,
             reason |-> <<"[rules-fallback]">> \o rule.reason
                        \o <<"; codex_error=", result.error>>,
             summary |-> rule.summary,
             reply_text |-> append_drafting_signature(rule_reply, config),
             source |-> "rules_fallback"]
       ELSE [raised |-> TRUE, error |-> result.error]

----------------------------------------------------------------------------
(* Policy engine.                                                          *)

\* variant: the cc recipients count as well
_is_drafted_to_self_WithCc(email, config) ==
    LET configured == configured_sender_identities(config)
        account_email == Lower(Strip(config.account_email))
        identities == IF configured # {} THEN configured
                      ELSE IF account_email # <<>> /\ HasAt(account_email)
                           THEN {account_email} ELSE {}
    IN /\ email.to # {}
       /\ identities # {}
       /\ email_targets_sender_identity(email, identities, TRUE)

\* The identities _is_drafted_to_self compares the `to` recipients with:
\* the configured ones, else the account's own address from the session.
_is_drafted_to_self(email, config) ==
    LET configured == configured_sender_identities(config)
        account_email == Lower(Strip(config.account_email))
        identities == IF configured # {} THEN configured
                      ELSE IF account_email # <<>> /\ HasAt(account_email)
                           THEN {account_email} ELSE {}
    IN /\ email.to # {}
       /\ identities # {}
       /\ email_targets_sender_identity(email, identities, FALSE)

\* variant: the draft decision without the addressed-to-self condition
should_create_draft_NoSelfCheck(apply_mode, automation, blocked_sender_emails, priority, actionable, has_existing_draft, sender_email, email, config) ==
    LET min_priority == LowerTok(automation.min_priority_for_draft)
        threshold == PRIORITY_ORDER(min_priority, "high")
        current == PRIORITY_ORDER(priority, "low")
    IN /\ apply_mode
       /\ automation.auto_draft
       /\ ~(sender_email # <<>> /\ sender_email \in blocked_sender_emails)
       /\ ~has_existing_draft
       /\ ~(current < threshold)
       /\ ~(automation.draft_actionable_only /\ ~actionable)

should_create_draft(apply_mode, automation, blocked_sender_emails, priority, actionable, has_existing_draft, sender_email, email, config) ==
    LET min_priority == LowerTok(automation.min_priority_for_draft)
        threshold == PRIORITY_ORDER(min_priority, "high")
        current == PRIORITY_ORDER(priority, "low")
    IN /\ apply_mode
       /\ automation.auto_draft
       /\ ~(sender_email # <<>> /\ sender_email \in blocked_sender_emails)
       /\ ~has_existing_draft
       /\ _is_drafted_to_self(email, config)
       /\ ~(current < threshold)
       /\ ~(automation.draft_actionable_only /\ ~actionable)

\* variant: the archive decision does not look at apply mode
should_archive_priority_AnyMode(apply_mode, automation, priority) ==
    LowerTok(priority) \in {LowerTok(p) : p \in automation.auto_archive_priorities}

should_archive_priority(apply_mode, automation, priority) ==
    /\ apply_mode
    /\ LowerTok(priority) \in {LowerTok(p) : p \in automation.auto_archive_priorities}

----------------------------------------------------------------------------
(* State store.  A connection is the record of the four tables.            *)
(* triage_state and vip_senders map the primary key to the row.            *)

EmptyStore == [triage_state |-> <<>>, triage_runs |-> <<>>,
               vip_senders |-> <<>>, draft_blocked_senders |-> <<>>]

\* get_state_row(conn, email_id) is not None
HasRow(conn, email_id) == email_id \in DOMAIN conn.triage_state

get_state_row(conn, email_id) == conn.triage_state[email_id]

\* variant: the rows written by auto-promotion are left out of the VIP set
get_vip_senders_WithoutAuto(conn) ==
    {Lower(Strip(e)) : e \in {k \in DOMAIN conn.vip_senders :
                                 conn.vip_senders[k].source # VIP_SOURCE_AUTO}}

get_vip_senders(conn) == {Lower(Strip(e)) : e \in DOMAIN conn.vip_senders}

get_draft_blocked_senders(conn) == {Lower(Strip(e)) : e \in DOMAIN conn.draft_blocked_senders}

upsert_state_row(conn, payload) ==
    LET id == payload.email_id
        table == conn.triage_state
    IN [conn EXCEPT !.triage_state =
            IF id \in DOMAIN table
            THEN [table EXCEPT ![id] = [payload EXCEPT !.first_seen_at = table[id].first_seen_at]]
            ELSE (id :> payload) @@ table]

\* variant: the observation of a skipped message also stores the status "skipped"
TouchStateRow_MarksSkipped(conn, email_id, now) ==
    [conn EXCEPT !.triage_state[email_id].status = "skipped",
                 !.triage_state[email_id].last_seen_at = now,
                 !.triage_state[email_id].updated_at = now]

\* variant: the observation of a skipped message also resets first_seen_at
TouchStateRow_ResetsFirstSeen(conn, email_id, now) ==
    [conn EXCEPT !.triage_state[email_id].first_seen_at = now,
                 !.triage_state[email_id].last_seen_at = now,
                 !.triage_state[email_id].updated_at = now]

\* UPDATE triage_state SET last_seen_at = ?, updated_at = ? WHERE email_id = ?
TouchStateRow(conn, email_id, now) ==
    [conn EXCEPT !.triage_state[email_id].last_seen_at = now,
                 !.triage_state[email_id].updated_at = now]

\* variant: the run row overwrites the log instead of being appended to it
record_run_Overwrites(conn, summ, apply_mode) ==
    [conn EXCEPT !.triage_runs =
        <<[run_at |-> summ.run_at,
           mode |-> IF apply_mode THEN "apply" ELSE "dry-run",
           emails_seen |-> summ.emails_seen,
           triaged_count |-> summ.triaged_count,
           drafted_count |-> summ.drafted_count,
           skipped_count |-> summ.skipped_count,
           error_count |-> summ.error_count,
           details_json |-> [i \in DOMAIN summ.emails |->
                               <<summ.emails[i].email_id, summ.emails[i].status>>]]>>]

record_run(conn, summ, apply_mode) ==
    [conn EXCEPT !.triage_runs = Append(@,
        [run_at |-> summ.run_at,
         mode |-> IF apply_mode THEN "apply" ELSE "dry-run",
         emails_seen |-> summ.emails_seen,
         triaged_count |-> summ.triaged_count,
         drafted_count |-> summ.drafted_count,
         skipped_count |-> summ.skipped_count,
         error_count |-> summ.error_count,
         details_json |-> [i \in DOMAIN summ.emails |->
                             <<summ.emails[i].email_id, summ.emails[i].status>>]])]

count_high_priority_emails_for_sender(conn, sender_email) ==
    Cardinality({id \in DOMAIN conn.triage_state :
                    /\ conn.triage_state[id].sender_email = sender_email
                    /\ conn.triage_state[id].priority = "high"})

\* variant: the row is upserted without looking whether the sender is a VIP already
maybe_auto_promote_vip_from_high_frequency_Upserts(conn, config, sender_email, has_previous, previous_priority, current_priority, now) ==
    LET threshold == get_vip_frequency_threshold(config)
        normalized_sender == normalize_vip_address(sender_email)
        current_count == count_high_priority_emails_for_sender(conn, normalized_sender)
        promote ==
            /\ threshold > 0
            /\ normalized_sender # <<>> /\ HasAt(normalized_sender)
            /\ current_priority = "high"
            /\ ~(has_previous /\ LowerTok(previous_priority) = "high")
            /\ ~(current_count + 1 < threshold)
    IN [promoted |-> promote,
        conn |-> IF promote
                 THEN [conn EXCEPT !.vip_senders =
                          (normalized_sender :> [added_at |-> now, source |-> VIP_SOURCE_AUTO,
                                                 note |-> current_count + 1]) @@ @]
                 ELSE conn]

\* Returns whether the sender was promoted, and the connection afterwards.
maybe_auto_promote_vip_from_high_frequency(conn, config, sender_email, has_previous, previous_priority, current_priority, now) ==
    LET threshold == get_vip_frequency_threshold(config)
        normalized_sender == normalize_vip_address(sender_email)
        current_count == count_high_priority_emails_for_sender(conn, normalized_sender)
        promote ==
            /\ threshold > 0
            /\ normalized_sender # <<>> /\ HasAt(normalized_sender)
            /\ current_priority = "high"
            /\ ~(has_previous /\ LowerTok(previous_priority) = "high")
            /\ ~(current_count + 1 < threshold)
            /\ normalized_sender \notin get_vip_senders(conn)
    IN [promoted |-> promote,
        conn |-> IF promote
                 THEN [conn EXCEPT !.vip_senders =
                          (normalized_sender :> [added_at |-> now, source |-> VIP_SOURCE_AUTO,
                                                 note |-> current_count + 1]) @@ @]
                 ELSE conn]

\* variant: the row is written without looking for an existing one
AddSender_NoPresenceCheck(conn, table, email, source, now) ==
    LET normalized == normalize_vip_address(email)
        ok == normalized # <<>> /\ HasAt(normalized)
    IN [ok |-> ok,
        conn |-> IF ok
                 THEN [conn EXCEPT ![table] =
                          (normalized :> [added_at |-> now, source |-> source, note |-> 0]) @@ @]
                 ELSE conn]

\* add_vip_sender / add_draft_blocked_sender on the named table
AddSender(conn, table, email, source, now) ==
    LET normalized == normalize_vip_address(email)
        ok == /\ normalized # <<>> /\ HasAt(normalized)
              /\ normalized \notin DOMAIN conn[table]
    IN [ok |-> ok,
        conn |-> IF ok
                 THEN [conn EXCEPT ![table] =
                          (normalized :> [added_at |-> now, source |-> source, note |-> 0]) @@ @]
                 ELSE conn]

add_vip_sender(conn, email, source, now) == AddSender(conn, "vip_senders", email, source, now)

add_draft_blocked_sender(conn, email, source, now) ==
    AddSender(conn, "draft_blocked_senders", email, source, now)

\* remove_vip_sender / remove_draft_blocked_sender on the named table
RemoveSender(conn, table, email) ==
    LET normalized == normalize_vip_address(email)
        ok == normalized # <<>> /\ normalized \in DOMAIN conn[table]
    IN [ok |-> ok,
        conn |-> IF ok
                 THEN [conn EXCEPT ![table] =
                          [e \in (DOMAIN conn[table]) \ {normalized} |-> conn[table][e]]]
                 ELSE conn]

remove_vip_sender(conn, email) == RemoveSender(conn, "vip_senders", email)

remove_draft_blocked_sender(conn, email) == RemoveSender(conn, "draft_blocked_senders", email)

----------------------------------------------------------------------------
(* The configurations and command-line options the cycles are run with.    *)

DefaultConfig ==
    [auto_draft |-> Unset, draft_actionable_only |-> Unset,
     min_priority_for_draft |-> Unset, auto_archive_low_priority |-> Unset,
     auto_archive_priorities |-> [kind |-> "none", items |-> {}],
     use_codex |-> Unset, codex_fallback_to_rules |-> Unset,
     loop_interval_seconds |-> Unset,
     sender_emails |-> {<<SPACE, "ME@EXAMPLE.COM">>}, account_email |-> Me,
     vip_frequency_threshold |-> 0, signature |-> <<"--", "Me">>]

\* The configuration files the cycles are run with: the defaults, and the
\* defaults with one or two settings changed.
CycleConfigs ==
    { DefaultConfig,
      [DefaultConfig EXCEPT !.use_codex = "no"],
      [DefaultConfig EXCEPT !.codex_fallback_to_rules = "no"],
      [DefaultConfig EXCEPT !.use_codex = "no",
                            !.auto_archive_priorities = [kind |-> "list", items |-> {}]],
      [DefaultConfig EXCEPT !.use_codex = "no",
                            !.auto_archive_priorities =
                                [kind |-> "list", items |-> {"HIGH", "low", "spam"}]],
      [DefaultConfig EXCEPT !.use_codex = "no", !.vip_frequency_threshold = 2],
      [DefaultConfig EXCEPT !.use_codex = "no", !.vip_frequency_threshold = 1],
      [DefaultConfig EXCEPT !.use_codex = "no", !.loop_interval_seconds = "0"] }

\* The sets of positions of Mailbox that are unread when a cycle queries.
UnreadChoices == { {1, 2}, {3, 4} }

\* The command lines a cycle is started with: <<--apply, --reprocess>>.
CycleModes == { <<TRUE, FALSE>>, <<FALSE, FALSE>>, <<TRUE, TRUE>>, <<FALSE, TRUE>> }

----------------------------------------------------------------------------
(* State.                                                                  *)

VARIABLES
    configuration,  \* the loaded configuration file
    pc,             \* "idle" between cycles, "running" inside the loop of a cycle
    cycle_counter,  \* cycles attempted so far
    clock,          \* utc_now_iso(), in seconds
    locals,         \* process_one_cycle: apply_mode, reprocess, codex_client, the
                    \* emails still to process, vip_senders, blocked_sender_emails
    summary,        \* the cycle summary being built (returned on commit)
    state_conn,     \* the connection's view of the tables (with uncommitted writes)
    disk,           \* the committed tables
    inbox,          \* MailStore: ids of the messages still in the inbox
    drafts,         \* MailStore: drafts[d] is the message the draft with id d replies to
    rpc,            \* the LLM and MailStore calls made in the current cycle
    cycle_start,    \* the tables as they were when the current cycle began
    outcome,        \* how the last cycle ended
    admin_ops,      \* operator commands run so far
    ever_reprocess, \* whether some cycle so far was started with --reprocess
    probe,          \* the last direct evaluation of a policy function
    daemon          \* main: the command line, the position in its loop, the exit code

vars == <<configuration, pc, cycle_counter, clock, locals, summary, state_conn, disk,
          inbox, drafts, rpc, cycle_start, outcome, admin_ops, ever_reprocess, probe,
          daemon>>

cycle_vars == <<configuration, pc, cycle_counter, clock, locals, summary, state_conn, disk,
                inbox, drafts, rpc, cycle_start, outcome, admin_ops, ever_reprocess>>

Automation == normalize_automation_settings(configuration)

NoSummary ==
    [run_at |-> 0, apply_mode |-> FALSE, emails_seen |-> 0, triaged_count |-> 0,
     archived_count |-> 0, drafted_count |-> 0, skipped_count |-> 0, error_count |-> 0,
     emails |-> <<>>]

NoLocals ==
    [apply_mode |-> FALSE, reprocess |-> FALSE, codex_client |-> FALSE, emails |-> <<>>,
     vip_senders |-> {}, blocked_sender_emails |-> {}]

NoProbe == [fn |-> "none"]

\* no exit code: the process is running
NoExit == "running"

\* main has not been entered
NoDaemon ==
    [pc |-> "not started", program |-> "", cycles |-> Unset, loop_seconds |-> Unset,
     interval |-> 0, json |-> FALSE, apply_mode |-> FALSE, reprocess |-> FALSE, cycle_counter |-> 0,
     constructed |-> 0, clients |-> <<>>, exit_code |-> NoExit]

Init ==
    /\ configuration \in CycleConfigs
    /\ pc = "idle"
    /\ cycle_counter = 0
    /\ clock = 0
    /\ locals = NoLocals
    /\ summary = NoSummary
    /\ state_conn = EmptyStore
    /\ disk = EmptyStore
    /\ inbox = MessageIds
    /\ drafts = <<>>
    /\ rpc = <<>>
    /\ cycle_start = EmptyStore
    /\ outcome = [kind |-> "none", error |-> ""]
    /\ admin_ops = 0
    /\ ever_reprocess = FALSE
    /\ probe = NoProbe
    /\ daemon = NoDaemon

----------------------------------------------------------------------------
(* The cycle.                                                              *)

\* variant: the rollback keeps the uncommitted writes
Rollback_KeepsWrites(conn, committed) == conn

\* conn.rollback() in the except handler of the loop in main
Rollback(conn, committed) == committed

\* state_conn.commit()
Commit(conn, committed) == conn

\* build_codex_client: whether a client is returned; raised when it raises
build_codex_client(config, auto, init_ok) ==
    IF ~auto.use_codex THEN [raised |-> FALSE, client |-> FALSE]
    ELSE IF init_ok THEN [raised |-> FALSE, client |-> TRUE]
    ELSE IF auto.codex_fallback_to_rules THEN [raised |-> FALSE, client |-> FALSE]
    ELSE [raised |-> TRUE, client |-> FALSE]

\* query_emails: the unread messages of the inbox, in the server's order
query_emails(unread) ==
    LET keep == {Mailbox[i] : i \in {j \in unread : Mailbox[j].id \in inbox \cup {""}}}
    IN FilterSeq(Mailbox, keep)

\* The exception leaves process_one_cycle; the loop in main rolls back,
\* prints the error and goes on to the next cycle.
AbortCycle(error) ==
    /\ pc' = "idle"
    /\ state_conn' = Rollback(state_conn, disk)
    /\ outcome' = [kind |-> "rolled_back", error |-> error]
    /\ UNCHANGED <<configuration, cycle_counter, disk, cycle_start, admin_ops, ever_reprocess, probe, daemon>>

\* main: cycle_counter += 1, JMAPClient(config), then process_one_cycle up to
\* the start of the loop over the emails.
StartCycle(apply_mode, reprocess, init_ok, unread) ==
    LET built == build_codex_client(configuration, Automation, init_ok)
        emails == query_emails(unread)
    IN /\ pc = "idle"
       /\ cycle_counter + admin_ops < MaxInvocations
       /\ ~built.raised
       /\ (~Automation.use_codex => init_ok)
       /\ cycle_counter' = cycle_counter + 1
       /\ clock' = clock + 1
       /\ pc' = "running"
       /\ locals' = [apply_mode |-> apply_mode, reprocess |-> reprocess,
                     codex_client |-> built.client, emails |-> emails,
                     vip_senders |-> get_vip_senders(state_conn),
                     blocked_sender_emails |-> get_draft_blocked_senders(state_conn)]
       /\ summary' = [NoSummary EXCEPT !.run_at = clock', !.apply_mode = apply_mode,
                                       !.emails_seen = Len(emails)]
       /\ rpc' = <<>>
       /\ cycle_start' = state_conn
       /\ outcome' = [kind |-> "running", error |-> ""]
       /\ ever_reprocess' = (ever_reprocess \/ reprocess)
       /\ UNCHANGED <<configuration, state_conn, disk, inbox, drafts, admin_ops, probe>>

\* The cycle fails before the loop: the LLM client cannot be built and
\* fallback is off, or list_mailboxes / query_emails raises.
CycleFailsAtStart(init_ok) ==
    LET built == build_codex_client(configuration, Automation, init_ok)
    IN /\ pc = "idle"
       /\ cycle_counter + admin_ops < MaxInvocations
       /\ (~Automation.use_codex => init_ok)
       /\ cycle_counter' = cycle_counter + 1
       /\ clock' = clock + 1
       /\ state_conn' = Rollback(state_conn, disk)
       /\ cycle_start' = state_conn
       /\ summary' = NoSummary
       /\ rpc' = <<>>
       /\ outcome' = [kind |-> "rolled_back",
                      error |-> IF built.raised THEN "Codex initialization failed"
                                ELSE "JMAP error"]
       /\ UNCHANGED <<configuration, pc, locals, disk, inbox, drafts, admin_ops, ever_reprocess, probe>>

\* email_id = str(email.get("id") or ""); if not email_id: error_count += 1; continue
ProcessEmptyId ==
    /\ pc = "running" /\ locals.emails # <<>>
    /\ Head(locals.emails).id = ""
    /\ summary' = [summary EXCEPT !.error_count = @ + 1]
    /\ locals' = [locals EXCEPT !.emails = Tail(@)]
    /\ UNCHANGED <<configuration, pc, cycle_counter, clock, state_conn, disk, inbox,
                   drafts, rpc, cycle_start, outcome, admin_ops, ever_reprocess, probe, daemon>>

\* existing_draft_id = existing["draft_id"] if (existing and existing["draft_id"]) else None
ExistingDraftId(conn, email_id) ==
    IF HasRow(conn, email_id) /\ get_state_row(conn, email_id).draft_id # NoDraft
    THEN get_state_row(conn, email_id).draft_id
    ELSE NoDraft

\* variant: the reprocess flag is read the wrong way round
SkipsAlreadyDrafted_Inverted(conn, email_id, reprocess) ==
    ExistingDraftId(conn, email_id) # NoDraft /\ reprocess

\* if has_existing_draft and not reprocess: ... continue
SkipsAlreadyDrafted(conn, email_id, reprocess) ==
    ExistingDraftId(conn, email_id) # NoDraft /\ ~reprocess

ProcessAlreadyDrafted ==
    /\ pc = "running" /\ locals.emails # <<>>
    /\ LET email == Head(locals.emails)
           email_id == email.id
           existing == get_state_row(state_conn, email_id)
       IN /\ email_id # ""
          /\ SkipsAlreadyDrafted(state_conn, email_id, locals.reprocess)
          /\ state_conn' = TouchStateRow(state_conn, email_id, clock)
          /\ summary' = [summary EXCEPT
                            !.skipped_count = @ + 1,
                            !.emails = Append(@, [email_id |-> email_id,
                                                  status |-> "skipped",
                                                  reason |-> <<"already has draft">>,
                                                  draft_id |-> existing.draft_id,
                                                  priority |-> existing.priority])]
    /\ locals' = [locals EXCEPT !.emails = Tail(@)]
    /\ UNCHANGED <<configuration, pc, cycle_counter, clock, disk, inbox,
                   drafts, rpc, cycle_start, outcome, admin_ops, ever_reprocess, probe, daemon>>

\* variant: drafting is tried before archiving
ChooseAction_DraftFirst(archive, draft) ==
    IF draft THEN "draft" ELSE IF archive THEN "archive" ELSE "none"

\* if should_archive_priority(...): archive  elif should_create_draft(...): draft
ChooseAction(archive, draft) ==
    IF archive THEN "archive" ELSE IF draft THEN "draft" ELSE "none"

\* variant: a failed action leaves the status of the message as it was
ActionResult_FailureIgnored(action, action_ok, existing_draft_id, draft_id, new_draft_id) ==
    IF action = "draft" /\ action_ok
    THEN [status |-> "drafted", draft_id |-> new_draft_id, error |-> ""]
    ELSE IF action = "archive" /\ action_ok
    THEN [status |-> "archived", draft_id |-> draft_id, error |-> ""]
    ELSE [status |-> "triaged", draft_id |-> draft_id, error |-> ""]

\* The try/except around move_email_to_archive and create_reply_draft_from_email:
\* status, draft_id and error_text after the action.
ActionResult(action, action_ok, existing_draft_id, draft_id, new_draft_id) ==
    IF action = "archive"
    THEN IF action_ok
         THEN [status |-> "archived", draft_id |-> draft_id, error |-> ""]
         ELSE [status |-> "error", draft_id |-> draft_id, error |-> "Move failed"]
    ELSE IF action = "draft"
    THEN IF action_ok
         THEN [status |-> "drafted", draft_id |-> new_draft_id, error |-> ""]
         ELSE [status |-> "error",
               draft_id |-> IF existing_draft_id # NoDraft /\ draft_id = NoDraft
                            THEN existing_draft_id ELSE draft_id,
               error |-> "Draft create failed"]
    ELSE [status |-> "triaged", draft_id |-> draft_id, error |-> ""]

\* variant: a message whose action failed is counted as triaged as well
TallyOutcome_ErrorAlsoTriaged(summ, status) ==
    [summ EXCEPT
        !.archived_count = IF status = "archived" THEN @ + 1 ELSE @,
        !.drafted_count = IF status = "drafted" THEN @ + 1 ELSE @,
        !.error_count = IF status = "error" THEN @ + 1 ELSE @,
        !.triaged_count = @ + 1]

\* variant: triaged_count counts only the messages left without an action
TallyOutcome_TriagedOnly(summ, status) ==
    [summ EXCEPT
        !.archived_count = IF status = "archived" THEN @ + 1 ELSE @,
        !.drafted_count = IF status = "drafted" THEN @ + 1 ELSE @,
        !.error_count = IF status = "error" THEN @ + 1 ELSE @,
        !.triaged_count = IF status = "triaged" THEN @ + 1 ELSE @]

\* The counters of the summary after one triaged message.
TallyOutcome(summ, status) ==
    [summ EXCEPT
        !.archived_count = IF status = "archived" THEN @ + 1 ELSE @,
        !.drafted_count = IF status = "drafted" THEN @ + 1 ELSE @,
        !.error_count = IF status = "error" THEN @ + 1 ELSE @,
        !.triaged_count = IF status # "error" THEN @ + 1 ELSE @]

\* variant: drafted follows the status of this cycle instead of the draft_id
StatePayload_DraftedFromStatus(email, sender_email, decided, result, first_seen_at, now) ==
    [email_id |-> email.id,
     subject |-> email.subject,
     sender_email |-> sender_email,
     priority |-> decided.priority,
     actionable |-> decided.actionable,
     reason |-> decided.reason,
     summary |-> decided.summary,
     reply_text |-> decided.reply_text,
     drafted |-> result.status = "drafted",
     draft_id |-> result.draft_id,
     status |-> result.status,
     error |-> result.error,
     first_seen_at |-> first_seen_at,
     last_seen_at |-> now,
     updated_at |-> now]

\* state_payload
StatePayload(email, sender_email, decided, result, first_seen_at, now) ==
    [email_id |-> email.id,
     subject |-> email.subject,
     sender_email |-> sender_email,
     priority |-> decided.priority,
     actionable |-> decided.actionable,
     reason |-> decided.reason,
     summary |-> decided.summary,
     reply_text |-> decided.reply_text,
     drafted |-> result.draft_id # NoDraft,
     draft_id |-> result.draft_id,
     status |-> result.status,
     error |-> result.error,
     first_seen_at |-> first_seen_at,
     last_seen_at |-> now,
     updated_at |-> now]

\* has_existing_draft=bool(existing_draft_id and not reprocess)
HasExistingDraftArg(existing_draft_id, reprocess) == existing_draft_id # NoDraft /\ ~reprocess

\* summary["emails"].append({...}) for a triaged message
SummaryEntry(email_id, sender_email, decided, result, auto_promoted_vip) ==
    [email_id |-> email_id, priority |-> decided.priority,
     actionable |-> decided.actionable, status |-> result.status,
     draft_id |-> result.draft_id, reason |-> decided.reason,
     source |-> decided.source, sender_email |-> sender_email,
     auto_promoted_vip |-> auto_promoted_vip]

\* The calls the loop body makes for one email: the LLM call when there is a
\* client, then the MailStore action.
CallsOf(email_id, codex_client, llm, action, action_ok) ==
    (IF codex_client
     THEN <<[op |-> "llm", id |-> email_id, ok |-> ~llm.raised, error |-> llm.error]>>
     ELSE <<>>)
    \o (IF action = "archive"
        THEN <<[op |-> "move", id |-> email_id, ok |-> action_ok,
                error |-> IF action_ok THEN "" ELSE "Move failed"]>>
        ELSE IF action = "draft"
        THEN <<[op |-> "create_draft", id |-> email_id, ok |-> action_ok,
                error |-> IF action_ok THEN "" ELSE "Draft create failed"]>>
        ELSE <<>>)

\* The provider responses the loop body can see: none are consulted without a client.
ResponsesFor(codex_client) ==
    IF codex_client THEN CodexResponses ELSE {CHOOSE r \in CodexResponses : r.kind = "error"}

\* One pass of the loop for a message that is classified, acted on and stored.
\* Each bound name is the local variable of that name in the loop body.
TriageEmail(response, action_ok) ==
    /\ pc = "running" /\ locals.emails # <<>>
    /\ response \in ResponsesFor(locals.codex_client)
    /\ \E email \in {Head(locals.emails)} :
       \E existing_draft_id \in {ExistingDraftId(state_conn, email.id)} :
       \E rule \in {classify_priority(email, configuration, locals.vip_senders)} :
       \E rule_reply \in {compose_auto_reply(email, rule.priority, configuration)} :
       \E llm \in {triage_email(response, rule_reply)} :
       \E decided \in {apply_codex_intelligence(configuration, Automation, locals.codex_client,
                                               response, rule, rule_reply)} :
       \E sender_email \in {SenderEmailOf(email)} :
          /\ email.id # ""
          /\ ~SkipsAlreadyDrafted(state_conn, email.id, locals.reprocess)
          /\ ~decided.raised
          /\ \E promo \in {maybe_auto_promote_vip_from_high_frequency(
                              state_conn, configuration, sender_email,
                              HasRow(state_conn, email.id),
                              IF HasRow(state_conn, email.id)
                              THEN get_state_row(state_conn, email.id).priority ELSE "",
                              decided.priority, clock)} :
             \E draft_id \in {IF existing_draft_id # NoDraft /\ ~locals.reprocess
                              THEN existing_draft_id ELSE NoDraft} :
             \E action \in {ChooseAction(
                              should_archive_priority(locals.apply_mode, Automation,
                                                      decided.priority),
                              should_create_draft(locals.apply_mode, Automation,
                                  locals.blocked_sender_emails, decided.priority,
                                  decided.actionable,
                                  HasExistingDraftArg(existing_draft_id, locals.reprocess),
                                  sender_email, email, configuration))} :
             \E result \in {ActionResult(action, action_ok, existing_draft_id, draft_id,
                                         Len(drafts) + 1)} :
                /\ (action = "none" => action_ok)
                /\ rpc' = rpc \o CallsOf(email.id, locals.codex_client, llm, action, action_ok)
                /\ inbox' = IF action = "archive" /\ action_ok
                            THEN inbox \ {email.id} ELSE inbox
                /\ drafts' = IF action = "draft" /\ action_ok
                             THEN Append(drafts, email.id) ELSE drafts
                /\ state_conn' = upsert_state_row(
                                    promo.conn,
                                    StatePayload(email, sender_email, decided, result,
                                                 IF HasRow(state_conn, email.id)
                                                 THEN get_state_row(state_conn, email.id).first_seen_at
                                                 ELSE clock,
                                                 clock))
                /\ summary' = [TallyOutcome(summary, result.status) EXCEPT
                                  !.emails = Append(@, SummaryEntry(email.id, sender_email,
                                                                    decided, result,
                                                                    promo.promoted))]
    /\ locals' = [locals EXCEPT !.emails = Tail(@)]
    /\ UNCHANGED <<configuration, pc, cycle_counter, clock, disk, cycle_start, outcome,
                   admin_ops, ever_reprocess, probe, daemon>>

\* The LLM call fails and codex_fallback_to_rules is off: apply_codex_intelligence
\* re-raises, the exception leaves process_one_cycle.
CodexFailureAborts(response) ==
    /\ pc = "running" /\ locals.emails # <<>>
    /\ LET email == Head(locals.emails)
           rule == classify_priority(email, configuration, locals.vip_senders)
           decided == apply_codex_intelligence(configuration, Automation,
                          locals.codex_client, response, rule,
                          compose_auto_reply(email, rule.priority, configuration))
       IN /\ email.id # ""
          /\ ~SkipsAlreadyDrafted(state_conn, email.id, locals.reprocess)
          /\ response \in ResponsesFor(locals.codex_client)
          /\ decided.raised
          /\ rpc' = Append(rpc, [op |-> "llm", id |-> email.id, ok |-> FALSE,
                                  error |-> decided.error])
          /\ AbortCycle(decided.error)
    /\ UNCHANGED <<clock, locals, summary, inbox, drafts>>

\* A statement on the connection raises (sqlite3.Error): the exception leaves
\* process_one_cycle at that point.
StorageFailure ==
    /\ pc = "running"
    /\ AbortCycle("database error")
    /\ UNCHANGED <<clock, locals, summary, inbox, drafts, rpc>>

\* After the loop: record_run(state_conn, summary, apply_mode); state_conn.commit();
\* return summary.
FinishCycle ==
    /\ pc = "running" /\ locals.emails = <<>>
    /\ state_conn' = record_run(state_conn, summary, locals.apply_mode)
    /\ disk' = Commit(state_conn', disk)
    /\ pc' = "idle"
    /\ outcome' = [kind |-> "committed", error |-> ""]
    /\ UNCHANGED <<configuration, cycle_counter, clock, locals, summary, inbox, drafts,
                   rpc, cycle_start, admin_ops, ever_reprocess, probe, daemon>>

----------------------------------------------------------------------------
(* Operator commands (handle_vip_commands, handle_draft_block_commands):   *)
(* each runs in its own process and commits.                               *)

AdminCommand(after) ==
    /\ pc = "idle"
    /\ cycle_counter + admin_ops < MaxInvocations
    /\ admin_ops' = admin_ops + 1
    /\ state_conn' = after
    /\ disk' = Commit(after, disk)
    /\ outcome' = [kind |-> "admin", error |-> ""]
    /\ UNCHANGED <<configuration, pc, cycle_counter, clock, locals, summary, inbox,
                   drafts, rpc, cycle_start, ever_reprocess, probe, daemon>>

AdminAddresses == {<<"MAILTO:", "Alice", SPACE, LT, "ALICE@EXAMPLE.COM", GT>>}

VipAdd(email) == AdminCommand(add_vip_sender(state_conn, email, VIP_SOURCE_MANUAL, clock).conn)

VipRemove(email) == AdminCommand(remove_vip_sender(state_conn, email).conn)

DraftBlockAdd(email) ==
    AdminCommand(add_draft_blocked_sender(state_conn, email, VIP_SOURCE_MANUAL, clock).conn)

DraftBlockRemove(email) == AdminCommand(remove_draft_blocked_sender(state_conn, email).conn)

Next ==
    \/ \E mode \in CycleModes, init_ok \in BOOLEAN, unread \in UnreadChoices :
            StartCycle(mode[1], mode[2], init_ok, unread) /\ UNCHANGED daemon
    \/ \E init_ok \in BOOLEAN : CycleFailsAtStart(init_ok) /\ UNCHANGED daemon
    \/ ProcessEmptyId
    \/ ProcessAlreadyDrafted
    \/ \E response \in CodexResponses, action_ok \in BOOLEAN : TriageEmail(response, action_ok)
    \/ \E response \in CodexResponses : CodexFailureAborts(response)
    \/ StorageFailure
    \/ FinishCycle
    \/ \E email \in AdminAddresses : VipAdd(email)
    \/ \E email \in AdminAddresses : VipRemove(email)
    \/ \E email \in AdminAddresses : DraftBlockAdd(email)
    \/ \E email \in AdminAddresses : DraftBlockRemove(email)

Spec == Init /\ [][Next]_vars

----------------------------------------------------------------------------
(* The loop of main, in daemon.py and in triage_cycle.py.                  *)

\* argparse type=int, and int(...) of a configured value
ToInt(text) ==
    CASE text = "0" -> 0
      [] text = "1" -> 1
      [] text = "2" -> 2
      [] text = "5" -> 5
      [] text = "900" -> 900

\* the two programs that run the loop
Programs == {"daemon.py", "triage_cycle.py"}

\* --cycles: absent, or a count
CyclesOptions == {Unset, "1", "2"}

\* --loop-seconds (triage_cycle.py) / --interval-seconds (daemon.py): absent, or a delay
DelayOptions == {Unset, "0", "5"}

\* the truth value of an optional integer: None and 0 are false
IsSet(option) == option # Unset /\ ToInt(option) # 0

\* triage_cycle.py: loop_seconds = args.loop_seconds; if loop_seconds is None and
\* args.cycles: loop_seconds = int(automation.get("loop_interval_seconds", 900))
ResolveLoopSeconds(delay, cycles, auto) ==
    IF delay = Unset /\ IsSet(cycles) THEN auto.loop_interval_seconds ELSE delay

\* daemon.py: interval = max(1, int(args.interval_seconds or
\* automation.get("loop_interval_seconds", 900)))
Interval(delay, auto) ==
    LET seconds == ToInt(IF IsSet(delay) THEN delay ELSE auto.loop_interval_seconds)
    IN IF seconds < 1 THEN 1 ELSE seconds

\* "if not loop_seconds" in triage_cycle.py; daemon.py has no such test
SingleShot(d) == d.program = "triage_cycle.py" /\ ~IsSet(d.loop_seconds)

\* "if args.cycles and cycle_counter >= args.cycles: break"
CyclesReached(d) == IsSet(d.cycles) /\ d.cycle_counter >= ToInt(d.cycles)

\* client = JMAPClient(config): a new object, the next one constructed
JMAPClient(constructed) == constructed + 1

\* main up to the loop: parse_args (without --reprocess), load_config,
\* normalize_automation_settings, open_state_db, the delay between cycles,
\* cycle_counter = 0
MainStarts(program, cycles, delay, json, apply_mode) ==
    /\ daemon.pc = "not started"
    /\ daemon' = [NoDaemon EXCEPT
                     !.pc = "top", !.program = program, !.cycles = cycles,
                     !.loop_seconds = IF program = "triage_cycle.py"
                                      THEN ResolveLoopSeconds(delay, cycles, Automation)
                                      ELSE Unset,
                     !.interval = IF program = "daemon.py" THEN Interval(delay, Automation)
                                  ELSE 0,
                     !.json = json, !.apply_mode = apply_mode]
    /\ UNCHANGED <<cycle_vars, probe>>

\* The top of the loop: cycle_counter += 1, client = JMAPClient(config), and
\* process_one_cycle(client, ...) up to its loop over the emails, or up to the
\* exception that leaves it before that loop.
LoopIteration(init_ok, unread) ==
    /\ daemon.pc = "top"
    /\ \/ StartCycle(daemon.apply_mode, daemon.reprocess, init_ok, unread)
       \/ CycleFailsAtStart(init_ok)
    /\ daemon' = [daemon EXCEPT !.pc = "try",
                                !.cycle_counter = @ + 1,
                                !.constructed = @ + 1,
                                !.clients = Append(@, JMAPClient(daemon.constructed))]

\* The steps of process_one_cycle inside the try block of the loop.
CycleStep ==
    /\ daemon.pc = "try"
    /\ \/ ProcessEmptyId
       \/ ProcessAlreadyDrafted
       \/ \E response \in CodexResponses, action_ok \in BOOLEAN :
              TriageEmail(response, action_ok)
       \/ \E response \in CodexResponses : CodexFailureAborts(response)
       \/ StorageFailure
       \/ FinishCycle

\* After the try statement. A cycle that raised has been rolled back and its
\* error printed; triage_cycle.py then tests "if not loop_seconds": with --json
\* it closes the connection and returns 1, otherwise it re-raises and the
\* process ends with exit code 1. Then "if not loop_seconds: break",
\* "if args.cycles and cycle_counter >= args.cycles: break", time.sleep(...);
\* after the loop conn.close() and return 0.
LoopBottom ==
    /\ daemon.pc = "try" /\ pc = "idle"
    /\ daemon' =
          IF outcome.kind = "rolled_back" /\ SingleShot(daemon)
          THEN [daemon EXCEPT !.pc = "exited", !.exit_code = 1]
          ELSE IF SingleShot(daemon) \/ CyclesReached(daemon)
          THEN [daemon EXCEPT !.pc = "exited", !.exit_code = 0]
          ELSE [daemon EXCEPT !.pc = "top"]
    /\ UNCHANGED <<cycle_vars, probe>>

NextDaemon ==
    \/ \E program \in Programs, cycles \in CyclesOptions, delay \in DelayOptions,
          json \in BOOLEAN, apply_mode \in BOOLEAN :
            MainStarts(program, cycles, delay, json, apply_mode)
    \/ \E init_ok \in BOOLEAN, unread \in UnreadChoices : LoopIteration(init_ok, unread)
    \/ CycleStep
    \/ LoopBottom

SpecDaemon == Init /\ [][NextDaemon]_vars

----------------------------------------------------------------------------
(* Direct evaluation of the policy functions on drawn inputs.              *)

YesNo == {Unset, "yes", "no"}

ProbeEmails ==
    { Email1, Email3,
      [Email1 EXCEPT !.to = {}],
      [Email1 EXCEPT !.to = {Other, <<"Me", SPACE, LT, "ME@EXAMPLE.COM", GT>>}] }

ProbeShouldCreateDraft(apply_mode, reprocess, auto_draft, actionable_only, min_priority, blocked, priority, actionable, stored_draft_id, email, identities) ==
    LET config == [DefaultConfig EXCEPT !.auto_draft = auto_draft,
                                        !.draft_actionable_only = actionable_only,
                                        !.min_priority_for_draft = min_priority,
                                        !.sender_emails = identities[1],
                                        !.account_email = identities[2]]
    IN /\ probe' = [fn |-> "should_create_draft",
                    apply_mode |-> apply_mode, reprocess |-> reprocess, config |-> config,
                    blocked |-> blocked, priority |-> priority, actionable |-> actionable,
                    stored_draft_id |-> stored_draft_id, email |-> email,
                    result |-> should_create_draft(
                                  apply_mode, normalize_automation_settings(config), blocked,
                                  priority, actionable,
                                  HasExistingDraftArg(stored_draft_id, reprocess),
                                  SenderEmailOf(email), email, config)]
       /\ UNCHANGED <<cycle_vars, daemon>>

ProbeShouldArchive(apply_mode, low_priority_flag, archive_priorities, priority) ==
    LET config == [DefaultConfig EXCEPT !.auto_archive_low_priority = low_priority_flag,
                                        !.auto_archive_priorities = archive_priorities]
    IN /\ probe' = [fn |-> "should_archive_priority",
                    apply_mode |-> apply_mode, config |-> config, priority |-> priority,
                    result |-> should_archive_priority(
                                  apply_mode, normalize_automation_settings(config), priority)]
       /\ UNCHANGED <<cycle_vars, daemon>>

ProbeArchiveSettings ==
    [kind : {"list"}, items : SUBSET {"low", "medium", "HIGH", "spam"}]
    \cup { [kind |-> "none", items |-> {}],
           [kind |-> "str", items |-> {"Low"}],
           [kind |-> "str", items |-> {"spam"}],
           [kind |-> "other", items |-> {}] }

\* one evaluation per behaviour, from the initial state of the default configuration
CanProbe == probe = NoProbe /\ configuration = DefaultConfig

NextPolicy ==
    \/ CanProbe /\ \E apply_mode \in BOOLEAN, reprocess \in BOOLEAN, auto_draft \in {Unset, "no"},
          actionable_only \in {Unset, "no"},
          min_priority \in {Unset, "low", "medium", "HIGH", "urgent"},
          blocked \in {{}, {Alice}}, priority \in VALID_PRIORITIES,
          actionable \in BOOLEAN, stored_draft_id \in {NoDraft, 1},
          email \in ProbeEmails,
          identities \in {<<{<<SPACE, "ME@EXAMPLE.COM">>}, Me>>, <<{}, Me>>, <<{}, <<>> >>} :
            ProbeShouldCreateDraft(apply_mode, reprocess, auto_draft, actionable_only,
                                   min_priority, blocked, priority, actionable,
                                   stored_draft_id, email, identities)
    \/ CanProbe /\ \E apply_mode \in BOOLEAN, low_priority_flag \in YesNo,
          archive_priorities \in ProbeArchiveSettings, priority \in VALID_PRIORITIES :
            ProbeShouldArchive(apply_mode, low_priority_flag, archive_priorities, priority)

SpecPolicy == Init /\ [][NextPolicy]_vars

----------------------------------------------------------------------------
(* Direct evaluation of the classifier and of the text functions on drawn  *)
(* inputs.                                                                 *)

\* the recipient {"name": "Me", "email": "ME@EXAMPLE.COM"} as format_address gives it
MeWithName == <<"Me", SPACE, LT, "ME@EXAMPLE.COM", GT>>

ProbeClassifyPriority(sender, to, cc, urgent, request, lowsignal, vip_senders, identities) ==
    LET email == [id |-> "m0", subject |-> "Weekly digest", from |-> sender,
                  to |-> to, cc |-> cc,
                  urgent |-> urgent, request |-> request, lowsignal |-> lowsignal]
        config == [DefaultConfig EXCEPT !.sender_emails = identities]
    IN /\ probe' = [fn |-> "classify_priority", email |-> email, config |-> config,
                    vip_senders |-> vip_senders,
                    result |-> classify_priority(email, config, vip_senders)]
       /\ UNCHANGED <<cycle_vars, daemon>>

\* the address strings of up to MaxAddressTokens tokens
AddressTokens == {SPACE, LT, GT, "MAILTO:", "ALICE@EXAMPLE.COM"}

AddressStrings == UNION {[1..n -> AddressTokens] : n \in 0..MaxAddressTokens}

ProbeNormalizeAddress(value) ==
    /\ probe' = [fn |-> "normalize_vip_address", value |-> value,
                 once |-> normalize_vip_address(value),
                 twice |-> normalize_vip_address(normalize_vip_address(value))]
    /\ UNCHANGED <<cycle_vars, daemon>>

\* the reply texts of up to MaxReplyLines lines
ReplyLines == {"Hello", "", "--", "Best,"}

ReplyTexts == UNION {[1..n -> ReplyLines] : n \in 0..MaxReplyLines}

\* the configured signatures: none, one line, with a "--" line first, and
\* several lines with a sign-off line and a "--" line
Signatures == {<<>>, <<"Me">>, <<"--", "Me">>, <<"Best,", "Me", "--", "Corp">>}

ProbeAppendSignature(reply_text, signature) ==
    LET config == [DefaultConfig EXCEPT !.signature = signature]
    IN /\ probe' = [fn |-> "append_drafting_signature", reply_text |-> reply_text,
                    signature |-> signature,
                    once |-> append_drafting_signature(reply_text, config),
                    twice |-> append_drafting_signature(
                                 append_drafting_signature(reply_text, config), config)]
       /\ UNCHANGED <<cycle_vars, daemon>>


\* the tables the operator commands are tried on: empty, alice a VIP, alice in
\* both tables
SenderStores ==
    { EmptyStore,
      add_vip_sender(EmptyStore, Alice, VIP_SOURCE_MANUAL, 0).conn,
      add_draft_blocked_sender(add_vip_sender(EmptyStore, Alice, VIP_SOURCE_CONFIG, 0).conn,
                               Alice, VIP_SOURCE_MANUAL, 0).conn }

\* the four functions that add to and remove from the two sender tables
SenderSetCall(table, op, conn, email, now) ==
    IF op = "add"
    THEN IF table = "vip_senders" THEN add_vip_sender(conn, email, VIP_SOURCE_MANUAL, now)
         ELSE add_draft_blocked_sender(conn, email, VIP_SOURCE_MANUAL, now)
    ELSE IF table = "vip_senders" THEN remove_vip_sender(conn, email)
         ELSE remove_draft_blocked_sender(conn, email)

\* one call, and the same call once more on the result
ProbeSenderSet(table, op, conn, email) ==
    /\ \E first \in {SenderSetCall(table, op, conn, email, 1)} :
       \E second \in {SenderSetCall(table, op, first.conn, email, 2)} :
          probe' = [fn |-> "sender_set", table |-> table, op |-> op, email |-> email,
                    before |-> conn, ok |-> first.ok, after |-> first.conn,
                    ok_again |-> second.ok, again |-> second.conn]
    /\ UNCHANGED <<cycle_vars, daemon>>


ProbeComposeAutoReply(email, priority, signature) ==
    LET config == [DefaultConfig EXCEPT !.signature = signature]
    IN /\ probe' = [fn |-> "compose_auto_reply", email |-> email, priority |-> priority,
                    signature |-> signature,
                    result |-> compose_auto_reply(email, priority, config)]
       /\ UNCHANGED <<cycle_vars, daemon>>

NextFunctions ==
    \/ CanProbe /\ \E sender \in {<<"ALICE@EXAMPLE.COM">>, News, NoAddress},
          to \in SUBSET {MeWithName, Other}, cc \in {{}, {Me}, {Other}},
          urgent \in BOOLEAN, request \in BOOLEAN, lowsignal \in BOOLEAN,
          vip_senders \in {{}, {Alice}, {Alice, News}},
          identities \in {{<<SPACE, "ME@EXAMPLE.COM">>}, {}} :
            ProbeClassifyPriority(sender, to, cc, urgent, request, lowsignal,
                                  vip_senders, identities)
    \/ CanProbe /\ \E value \in AddressStrings : ProbeNormalizeAddress(value)
    \/ CanProbe /\ \E reply_text \in ReplyTexts, signature \in Signatures :
            ProbeAppendSignature(reply_text, signature)
    \/ CanProbe /\ \E table \in {"vip_senders", "draft_blocked_senders"},
          op \in {"add", "remove"}, conn \in SenderStores, email \in AddressStrings :
            ProbeSenderSet(table, op, conn, email)
    \/ CanProbe /\ \E email \in {Email1, Email2, Email3}, priority \in VALID_PRIORITIES,
          signature \in Signatures :
            ProbeComposeAutoReply(email, priority, signature)

SpecFunctions == Init /\ [][NextFunctions]_vars

----------------------------------------------------------------------------
(* Properties.                                                             *)

DraftsFor(m) == {d \in DOMAIN drafts : drafts[d] = m}

\* the step completes the loop pass for the email at the head of the list
PassCompletes == pc = "running" /\ locals.emails # <<>> /\ locals'.emails = Tail(locals.emails)

\* the calls the step adds to the log
NewCalls == SubSeq(rpc', Len(rpc) + 1, Len(rpc'))

\* the step makes an LLM call that fails
LlmFails == Len(rpc') > Len(rpc) /\ NewCalls[1].op = "llm" /\ ~NewCalls[1].ok

\* C1: over cycles that all run with reprocess off, committed or rolled back,
\* create-draft succeeds at most once for each message id.
C1_AtMostOneDraftPerMessage ==
    ~ever_reprocess => \A m \in MessageIds : Cardinality(DraftsFor(m)) <= 1

\* C2: a pass with reprocess off over a message whose stored row has a draft_id
\* adds exactly one summary entry for it, with status "skipped" and the stored
\* draft_id, adds one to skipped_count and to no other counter, and makes no
\* LLM call and no MailStore create-draft or move call.
C2_AlreadyDraftedIsSkipped ==
    [][(/\ PassCompletes
        /\ Head(locals.emails).id \in DOMAIN state_conn.triage_state
        /\ state_conn.triage_state[Head(locals.emails).id].draft_id # NoDraft
        /\ ~locals.reprocess)
       => LET id == Head(locals.emails).id
              stored == state_conn.triage_state[id].draft_id
          IN /\ \A i \in DOMAIN summary.emails : summary.emails[i].email_id # id
             /\ Len(summary'.emails) = Len(summary.emails) + 1
             /\ SubSeq(summary'.emails, 1, Len(summary.emails)) = summary.emails
             /\ Last(summary'.emails).email_id = id
             /\ Last(summary'.emails).status = "skipped"
             /\ Last(summary'.emails).draft_id = stored
             /\ summary'.skipped_count = summary.skipped_count + 1
             /\ summary'.triaged_count = summary.triaged_count
             /\ summary'.error_count = summary.error_count
             /\ rpc' = rpc /\ inbox' = inbox /\ drafts' = drafts]_vars

C2_Witness ==
    /\ summary.emails # <<>>
    /\ Last(summary.emails).status = "skipped"
    /\ Last(summary.emails).draft_id # NoDraft
    /\ ~locals.reprocess

\* C3: every triage_state row, in the connection's view and on disk, has
\* drafted = true exactly when its draft_id is non-empty.
C3_DraftedIffDraftId ==
    \A conn \in {state_conn, disk} : \A id \in DOMAIN conn.triage_state :
        conn.triage_state[id].drafted <=> (conn.triage_state[id].draft_id # NoDraft)

C3_Witness ==
    \E id \in DOMAIN disk.triage_state :
        /\ disk.triage_state[id].draft_id # NoDraft
        /\ disk.triage_state[id].status = "error"
        /\ disk.triage_state[id].drafted

\* C4: in every cycle summary, triaged + skipped + error <= emails_seen and
\* archived + drafted <= triaged.
C4_CounterBounds ==
    /\ summary.triaged_count + summary.skipped_count + summary.error_count
          <= summary.emails_seen
    /\ summary.archived_count + summary.drafted_count <= summary.triaged_count

C4_Witness ==
    /\ outcome.kind = "committed"
    /\ summary.error_count > 0
    /\ summary.archived_count + summary.drafted_count > 0
    /\ summary.triaged_count + summary.skipped_count + summary.error_count
          = summary.emails_seen

\* C5: a cycle is atomic in the store: nothing of it is on disk while it runs;
\* after a rollback the connection and the disk hold the tables as they were
\* when the cycle began; after a commit the disk holds the connection's view,
\* which has a row stamped in this cycle for every summary entry and exactly
\* one more run-log row than when the cycle began.
C5_CycleIsAtomic ==
    /\ pc = "running" => disk = cycle_start
    /\ outcome.kind = "rolled_back" => state_conn = cycle_start /\ disk = cycle_start
    /\ outcome.kind = "committed" =>
          /\ disk = state_conn
          /\ disk.triage_runs = Append(cycle_start.triage_runs, Last(disk.triage_runs))
          /\ Last(disk.triage_runs).run_at = summary.run_at
          /\ \A i \in DOMAIN summary.emails :
                /\ summary.emails[i].email_id \in DOMAIN disk.triage_state
                /\ disk.triage_state[summary.emails[i].email_id].last_seen_at >= summary.run_at

C5_Witness ==
    /\ outcome.kind = "rolled_back"
    /\ summary.emails # <<>>
    /\ cycle_start.triage_state # <<>>

\* C6: with codex_fallback_to_rules on, a failed LLM call leaves the message
\* processed with the rule classifier's priority, actionability and reply, the
\* reason "[rules-fallback]" + rule reason + "; codex_error=" + message, a
\* status that is "error" only if the MailStore action failed, and the cycle
\* goes on with the rest of the list.
C6_FallbackToRules ==
    [][(LlmFails /\ Automation.codex_fallback_to_rules)
       => LET email == Head(locals.emails)
              rule == classify_priority(email, configuration, locals.vip_senders)
              entry == Last(summary'.emails)
              row == state_conn'.triage_state[email.id]
          IN /\ pc' = "running"
             /\ locals'.emails = Tail(locals.emails)
             /\ Len(summary'.emails) = Len(summary.emails) + 1
             /\ entry.email_id = email.id
             /\ entry.priority = rule.priority /\ row.priority = rule.priority
             /\ entry.actionable = rule.actionable /\ row.actionable = rule.actionable
             /\ entry.reason = <<"[rules-fallback]">> \o rule.reason
                                  \o <<"; codex_error=", NewCalls[1].error>>
             /\ row.reason = entry.reason
             /\ NewCalls[1].error # ""
             /\ row.reply_text = append_drafting_signature(
                                    compose_auto_reply(email, rule.priority, configuration),
                                    configuration)
             /\ entry.status = "error" =>
                   /\ Len(NewCalls) = 2
                   /\ NewCalls[2].op \in {"move", "create_draft"}
                   /\ ~NewCalls[2].ok]_vars

C6_Witness ==
    /\ pc = "running"
    /\ Len(summary.emails) = 1 /\ Len(locals.emails) = 1
    /\ summary.emails[1].source = "rules_fallback"
    /\ summary.emails[1].status = "drafted"

\* C7: with codex_fallback_to_rules off, a failed LLM call ends the cycle: the
\* store is rolled back to what it was when the cycle began, no run-log row is
\* recorded, and no message is processed until another cycle starts.
C7_NoFallbackAborts ==
    [][/\ (LlmFails /\ ~Automation.codex_fallback_to_rules)
          => /\ pc' = "idle"
             /\ outcome'.kind = "rolled_back"
             /\ state_conn' = cycle_start /\ disk' = cycle_start
             /\ state_conn'.triage_runs = cycle_start.triage_runs
             /\ summary' = summary /\ locals' = locals
             /\ inbox' = inbox /\ drafts' = drafts
       /\ (pc = "idle" /\ outcome.kind = "rolled_back" /\ cycle_counter' = cycle_counter)
          => /\ summary' = summary /\ locals' = locals
             /\ inbox' = inbox /\ drafts' = drafts /\ rpc' = rpc
             /\ state_conn'.triage_state = state_conn.triage_state
             /\ state_conn'.triage_runs = state_conn.triage_runs]_vars

C7_Witness ==
    /\ pc = "idle" /\ outcome.kind = "rolled_back"
    /\ outcome.error \in {"Codex network error", "Invalid priority from Codex"}
    /\ summary.emails # <<>>
    /\ Len(locals.emails) = 1
    /\ state_conn.triage_runs = <<>>

\* the calls of the current cycle about message m to the MailStore
StoreCalls(m) == FilterSeq(rpc, {c \in {rpc[i] : i \in DOMAIN rpc} : c.id = m /\ c.op \in {"move", "create_draft"}})

\* the priorities in the order low < medium < high
AtLeast(p, floor) ==
    <<floor, p>> \in {<<"low", "low">>, <<"low", "medium">>, <<"low", "high">>,
                      <<"medium", "medium">>, <<"medium", "high">>, <<"high", "high">>}

\* the sender identities: the configured addresses, else the account's address
SenderIdentities(config) ==
    LET configured == {normalize_vip_address(v) : v \in config.sender_emails} \ {<<>>}
    IN IF configured # {} THEN configured
       ELSE {Lower(Strip(config.account_email))} \ {<<>>}

\* C8: should_create_draft is true exactly when apply mode is on, auto_draft is
\* on, the sender is not in the draft-block set, no draft_id is stored for the
\* message unless reprocess is on, some `to` recipient (cc ignored) matches a
\* sender identity, the priority is at least min_priority_for_draft (default
\* high) in the order low < medium < high, and actionable is true when
\* draft_actionable_only is true.  Stated for a min_priority_for_draft that is
\* unset or names a priority.
C8_ShouldCreateDraftIff ==
    (probe.fn = "should_create_draft"
        /\ LowerTok(probe.config.min_priority_for_draft) \in VALID_PRIORITIES \cup {Unset})
    => LET cfg == probe.config
           floor == IF cfg.min_priority_for_draft = Unset THEN "high"
                    ELSE LowerTok(cfg.min_priority_for_draft)
       IN probe.result <=>
             /\ probe.apply_mode
             /\ cfg.auto_draft # "no"
             /\ Lower(Strip(probe.email.from)) \notin probe.blocked
             /\ (probe.stored_draft_id = NoDraft \/ probe.reprocess)
             /\ \E person \in probe.email.to :
                   normalize_vip_address(person) \in SenderIdentities(cfg)
             /\ AtLeast(probe.priority, floor)
             /\ (cfg.draft_actionable_only # "no" => probe.actionable)

C8_Witness ==
    /\ probe.fn = "should_create_draft"
    /\ probe.result
    /\ probe.reprocess /\ probe.stored_draft_id # NoDraft
    /\ probe.config.min_priority_for_draft = "medium" /\ probe.priority = "high"
    /\ probe.config.draft_actionable_only = "no" /\ ~probe.actionable
    /\ Cardinality(probe.email.to) = 2

\* C9: archive takes precedence over drafting: for every message processed in
\* a cycle whose final priority should_archive_priority accepts, the only
\* MailStore call made for it in that cycle is one move to the archive, and
\* create-draft is not called, also when every condition of should_create_draft
\* holds and also when the move fails.
C9_ArchiveBeforeDraft ==
    \A i \in DOMAIN summary.emails :
        LET entry == summary.emails[i]
        IN (entry.status # "skipped"
              /\ should_archive_priority(locals.apply_mode, Automation, entry.priority))
           => /\ Len(StoreCalls(entry.email_id)) = 1
              /\ StoreCalls(entry.email_id)[1].op = "move"
              /\ entry.status \in {"archived", "error"}
              /\ entry.status = "error" <=> ~StoreCalls(entry.email_id)[1].ok

C9_Witness ==
    \E i \in DOMAIN summary.emails :
        LET entry == summary.emails[i]
        IN /\ entry.email_id = Email1.id
           /\ entry.status = "error"
           /\ should_archive_priority(locals.apply_mode, Automation, entry.priority)
           /\ should_create_draft(locals.apply_mode, Automation, locals.blocked_sender_emails,
                                  entry.priority, entry.actionable, FALSE,
                                  SenderEmailOf(Email1), Email1, configuration)
           /\ StoreCalls(Email1.id) = <<[op |-> "move", id |-> Email1.id, ok |-> FALSE,
                                         error |-> "Move failed"]>>

\* the archive set the configuration asks for: the explicit list (a single
\* string is a list of one) cut down to the three priorities, else the default
\* that auto_archive_low_priority selects
ExpectedArchivePriorities(cfg) ==
    IF cfg.auto_archive_priorities.kind \in {"list", "str"}
    THEN {LowerTok(v) : v \in cfg.auto_archive_priorities.items} \cap {"low", "medium", "high"}
    ELSE IF cfg.auto_archive_low_priority # "no" THEN {"low", "medium"} ELSE {}

\* C10: a message is to be archived exactly when apply mode is on and its
\* priority is in the normalized auto_archive_priorities: the explicit list
\* restricted to {low, medium, high} whenever the key is set (an explicit empty
\* list means no archival even if auto_archive_low_priority is true), otherwise
\* {low, medium} when auto_archive_low_priority is true and {} when it is false.
C10_ArchiveIff ==
    (probe.fn = "should_archive_priority"
        /\ probe.config.auto_archive_priorities.kind \in {"none", "list", "str"})
    => /\ normalize_automation_settings(probe.config).auto_archive_priorities
             = ExpectedArchivePriorities(probe.config)
       /\ probe.result <=> (probe.apply_mode
                               /\ probe.priority \in ExpectedArchivePriorities(probe.config))

C10_Witness ==
    /\ probe.fn = "should_archive_priority"
    /\ probe.config.auto_archive_priorities = [kind |-> "list", items |-> {}]
    /\ probe.config.auto_archive_low_priority = "yes"
    /\ probe.apply_mode /\ probe.priority = "low"
    /\ ~probe.result

\* the rows of the connection with status "archived" or "drafted" that did not
\* have that status when the cycle began
RowsActedOnInCycle ==
    {id \in DOMAIN state_conn.triage_state :
        /\ state_conn.triage_state[id].status \in {"archived", "drafted"}
        /\ ~(id \in DOMAIN cycle_start.triage_state
               /\ cycle_start.triage_state[id].status = state_conn.triage_state[id].status)}

\* C11: in a dry-run cycle (apply mode off) no mutating MailStore operation is
\* performed: move-to-archive and create-draft are never called, the inbox and
\* the drafts stay as they are, archived_count and drafted_count stay 0, and no
\* summary entry and no stored row gets status "archived" or "drafted".
C11_DryRunMutatesNothing ==
    [][/\ (pc = "running" /\ ~locals.apply_mode) => (inbox' = inbox /\ drafts' = drafts)
       /\ ~summary'.apply_mode =>
             /\ \A i \in DOMAIN rpc' : rpc'[i].op \notin {"move", "create_draft"}
             /\ summary'.archived_count = 0 /\ summary'.drafted_count = 0
             /\ \A i \in DOMAIN summary'.emails :
                   summary'.emails[i].status \notin {"archived", "drafted"}
             /\ RowsActedOnInCycle' = {}]_vars

C11_Witness ==
    /\ outcome.kind = "committed" /\ ~summary.apply_mode /\ summary.run_at > 0
    /\ \E i, j \in DOMAIN summary.emails :
          /\ summary.emails[i].priority \in Automation.auto_archive_priorities
          /\ summary.emails[i].status = "triaged"
          /\ summary.emails[j].email_id = Email1.id
          /\ summary.emails[j].priority = "high" /\ summary.emails[j].actionable
          /\ summary.emails[j].status = "triaged"

\* the step makes a MailStore call (move or create-draft) that fails
StoreCallFails ==
    /\ Len(rpc') > Len(rpc)
    /\ Last(rpc').op \in {"move", "create_draft"}
    /\ ~Last(rpc').ok

\* C12: a failure of move-to-archive or create-draft for one message does not
\* abort the cycle: the message's row is upserted with status "error" and the
\* error text, error_count goes up by one, triaged_count, archived_count and
\* drafted_count do not count the message, and the cycle goes on with the
\* rest of the list and can commit.
C12_ActionFailureIsPerMessage ==
    [][StoreCallFails
       => LET email == Head(locals.emails)
              row == state_conn'.triage_state[email.id]
          IN /\ pc' = "running" /\ outcome' = outcome /\ outcome.kind = "running"
             /\ locals'.emails = Tail(locals.emails)
             /\ Last(rpc').id = email.id
             /\ row.status = "error"
             /\ row.error = Last(rpc').error /\ row.error # ""
             /\ row.last_seen_at = clock
             /\ Last(summary'.emails).email_id = email.id
             /\ Last(summary'.emails).status = "error"
             /\ summary'.error_count = summary.error_count + 1
             /\ summary'.triaged_count = summary.triaged_count
             /\ summary'.archived_count = summary.archived_count
             /\ summary'.drafted_count = summary.drafted_count
             /\ inbox' = inbox /\ drafts' = drafts]_vars

\* a committed cycle in which the first message's action failed and a later
\* message was processed
C12_Witness ==
    /\ outcome.kind = "committed"
    /\ Len(summary.emails) = 2
    /\ summary.emails[1].status = "error"
    /\ summary.emails[2].status \in {"archived", "drafted", "triaged"}
    /\ \E i \in DOMAIN rpc : rpc[i].id = summary.emails[1].email_id /\ ~rpc[i].ok
                              /\ rpc[i].op \in {"move", "create_draft"}
    /\ disk.triage_state[summary.emails[1].email_id].status = "error"
    /\ Len(disk.triage_runs) = 1

\* C13: first_seen_at of a message's row is fixed by the upsert that inserts
\* the row (the time of that cycle) and no later step changes it, be it a
\* skipped observation, a reprocessing or a rollback to the committed row,
\* while last_seen_at and updated_at are set to the time of every later
\* observation and so advance.
C13_FirstSeenPreserved ==
    [][/\ \A id \in DOMAIN state_conn'.triage_state :
             LET new == state_conn'.triage_state[id]
             IN IF id \in DOMAIN state_conn.triage_state
                THEN LET old == state_conn.triage_state[id]
                     IN /\ new.first_seen_at = old.first_seen_at
                        /\ (new # old /\ outcome'.kind # "rolled_back")
                              => /\ new.last_seen_at = clock /\ new.updated_at = clock
                                 /\ new.last_seen_at >= old.last_seen_at
                                 /\ new.first_seen_at <= new.last_seen_at
                ELSE /\ new.first_seen_at = clock'
                     /\ new.last_seen_at = clock' /\ new.updated_at = clock'
       /\ \A id \in DOMAIN disk'.triage_state \cap DOMAIN disk.triage_state :
             LET new == disk'.triage_state[id]
                 old == disk.triage_state[id]
             IN /\ new.first_seen_at = old.first_seen_at
                /\ new # old => /\ new.last_seen_at > old.last_seen_at
                                /\ new.updated_at > old.updated_at]_vars

\* a row inserted in the first cycle and observed again, skipped, in the second
C13_Witness ==
    /\ outcome.kind = "committed" /\ clock = 2
    /\ \E id \in DOMAIN disk.triage_state :
          /\ id \in DOMAIN cycle_start.triage_state
          /\ disk.triage_state[id].first_seen_at = 1
          /\ disk.triage_state[id].last_seen_at = 2
          /\ disk.triage_state[id].updated_at = 2
          /\ \E i \in DOMAIN summary.emails :
                summary.emails[i].email_id = id /\ summary.emails[i].status = "skipped"

\* C14: every priority stored in a triage_state row or emitted in a cycle
\* summary is one of high, medium, low; an LLM response with any other
\* priority counts as a failed LLM call, and the message, if it is processed
\* at all, is processed by the rules.
C14_PrioritiesAreValid ==
    /\ \A conn \in {state_conn, disk} : \A id \in DOMAIN conn.triage_state :
          conn.triage_state[id].priority \in {"high", "medium", "low"}
    /\ \A i \in DOMAIN summary.emails :
          summary.emails[i].priority \in {"high", "medium", "low"}
    /\ \A i \in DOMAIN rpc :
          (rpc[i].op = "llm" /\ rpc[i].error = "Invalid priority from Codex")
          => /\ ~rpc[i].ok
             /\ \A j \in DOMAIN summary.emails :
                   summary.emails[j].email_id = rpc[i].id
                   => summary.emails[j].source = "rules_fallback"

C14_Witness ==
    /\ outcome.kind = "committed"
    /\ \E i \in DOMAIN rpc, j \in DOMAIN summary.emails :
          /\ rpc[i].op = "llm" /\ rpc[i].error = "Invalid priority from Codex"
          /\ summary.emails[j].email_id = rpc[i].id
          /\ summary.emails[j].source = "rules_fallback"
          /\ disk.triage_state[rpc[i].id].priority = summary.emails[j].priority
    /\ \E j \in DOMAIN summary.emails : summary.emails[j].source = "codex"

\* the step appends the summary entry of a message that was classified
MessageProcessed ==
    /\ PassCompletes
    /\ Len(summary'.emails) = Len(summary.emails) + 1
    /\ Last(summary'.emails).status # "skipped"

\* the conditions of the auto-promotion rule for the message at the head of the
\* list, whose summary entry is `entry`
PromotionDue(entry) ==
    LET id == Head(locals.emails).id
        rows == state_conn.triage_state
    IN /\ configuration.vip_frequency_threshold >= 1
       /\ entry.priority = "high"
       /\ ~(id \in DOMAIN rows /\ rows[id].priority = "high")
       /\ Cardinality({r \in DOMAIN rows : rows[r].sender_email = entry.sender_email
                                            /\ rows[r].priority = "high"}) + 1
             >= configuration.vip_frequency_threshold

\* C15: with vip_frequency_threshold T >= 1, when a processed message's final
\* priority is high, its previously stored priority (if any) is not high, and
\* the sender's stored rows with priority high plus 1 are at least T, then
\* after the message is processed a VIP row for the sender exists with source
\* auto_frequency and the summary entry has auto_promoted_vip = true; when one
\* of the conditions fails, no VIP row is inserted for the message.
C15_AutoPromotion ==
    [][MessageProcessed
       => LET entry == Last(summary'.emails)
          IN IF PromotionDue(entry)
             THEN /\ entry.sender_email \in DOMAIN state_conn'.vip_senders
                  /\ state_conn'.vip_senders[entry.sender_email].source = VIP_SOURCE_AUTO
                  /\ entry.auto_promoted_vip
             ELSE /\ state_conn'.vip_senders = state_conn.vip_senders
                  /\ ~entry.auto_promoted_vip]_vars

\* C16: the rule classifier assigns the priority by first match: high if the
\* sender is in the VIP set, or a to/cc recipient is a configured sender
\* identity, or an urgent keyword occurs in the text; otherwise medium if the
\* message is actionable and not low-signal; otherwise low.  So a low-signal
\* message addressed to a configured identity is high, and the same message
\* addressed to nobody configured is low.
C16_ClassifierFirstMatch ==
    probe.fn = "classify_priority"
    => LET email == probe.email
           sender == Lower(Strip(email.from))
           is_vip == sender # <<>> /\ sender \in probe.vip_senders
           identities == {normalize_vip_address(v) : v \in probe.config.sender_emails} \ {<<>>}
           targets_identity == \E p \in email.to \cup email.cc :
                                  normalize_vip_address(p) \in identities
           low_signal == email.lowsignal \/ sender = News
       IN /\ probe.result.priority =
                IF is_vip \/ targets_identity \/ email.urgent THEN "high"
                ELSE IF email.request /\ ~low_signal THEN "medium"
                ELSE "low"
          /\ probe.result.actionable = email.request

\* the digest of a noreply sender, low-signal and not actionable, addressed to
\* the configured identity with somebody else in cc: high
C16_Witness ==
    /\ probe.fn = "classify_priority"
    /\ probe.email.from = News /\ probe.email.lowsignal /\ ~probe.email.request
    /\ ~probe.email.urgent /\ probe.vip_senders = {}
    /\ probe.email.to = {MeWithName} /\ probe.email.cc = {Other}
    /\ probe.result.priority = "high"
    /\ ~probe.result.actionable
    /\ "sent to configured sender address" \in {probe.result.reason[i] : i \in DOMAIN probe.result.reason}

\* C17: a message with no configured-identity recipient in `to` never gets a
\* draft, whatever the other settings, also when such a recipient is in cc,
\* which the classifier does count as an identity target (priority high); and
\* when no sender identity is configured and no account email is available
\* the addressed-to-self condition fails closed: no draft.
C17_CcOnlyNeverDrafted ==
    probe.fn = "should_create_draft"
    => LET email == probe.email
           configured == {normalize_vip_address(v) : v \in probe.config.sender_emails} \ {<<>>}
           in_to == \E p \in email.to : normalize_vip_address(p) \in SenderIdentities(probe.config)
           in_cc == \E p \in email.cc : normalize_vip_address(p) \in configured
       IN /\ ~in_to => ~probe.result
          /\ in_cc => classify_priority(email, probe.config, {}).priority = "high"
          /\ (configured = {} /\ probe.config.account_email = <<>>) => ~probe.result

\* every other condition of the draft decision holds for the cc-only message
C17_Witness ==
    /\ probe.fn = "should_create_draft"
    /\ probe.email = Email3
    /\ probe.config.sender_emails # {}
    /\ probe.apply_mode /\ probe.config.auto_draft = Unset
    /\ probe.blocked = {} /\ probe.stored_draft_id = NoDraft
    /\ probe.priority = "high" /\ probe.actionable
    /\ classify_priority(Email3, probe.config, {}).priority = "high"
    /\ ~probe.result

\* C18: address normalization is idempotent: for every address string a,
\* also one with a mailto: prefix followed by whitespace or with an
\* angle-bracketed segment that itself starts with mailto:,
\* normalize(normalize(a)) = normalize(a).
C18_NormalizeIdempotent ==
    probe.fn = "normalize_vip_address" => probe.twice = probe.once

\* C19: appending the signature is idempotent: for every reply text and
\* every configured signature, also one of several lines with a "--" line or
\* a sign-off line, append_drafting_signature applied twice gives the text
\* it gives applied once.
C19_SignatureIdempotent ==
    probe.fn = "append_drafting_signature" => probe.twice = probe.once


\* C20: a loop started with cycles = N >= 1 makes exactly N cycle attempts,
\* each with a newly constructed MailStore client, goes on to the next attempt
\* after a cycle that raised, and then exits with code 0: it never makes more
\* than N attempts, the client of the k-th attempt is the k-th one constructed,
\* and when it has exited it has made N attempts and the exit code is 0.
C20_LoopBoundedByCycles ==
    (daemon.pc # "not started" /\ IsSet(daemon.cycles)) =>
        /\ daemon.cycle_counter <= ToInt(daemon.cycles)
        /\ daemon.clients = [k \in 1..daemon.cycle_counter |-> k]
        /\ daemon.pc = "exited" =>
              /\ daemon.cycle_counter = ToInt(daemon.cycles)
              /\ daemon.exit_code = 0


\* C21: for the VIP table and for the draft-block table: add(email) returns
\* true only if the normalized address was absent, and then the table is the
\* old one with that address inserted; when the address is present add
\* returns false and changes nothing.  remove(email) returns true only if the
\* address was present, and then the table is the old one without it; when it
\* is absent remove returns false and changes nothing.  Calling the same
\* function again with the same address leaves the tables as the first call
\* left them.
C21_AddRemoveSenderSet ==
    probe.fn = "sender_set"
    => LET n == normalize_vip_address(probe.email)
           old == probe.before[probe.table]
           new == probe.after[probe.table]
           present == n \in DOMAIN old
       IN /\ probe.op = "add" =>
                /\ probe.ok => /\ ~present
                               /\ DOMAIN new = DOMAIN old \cup {n}
                               /\ \A e \in DOMAIN old : new[e] = old[e]
                /\ present => ~probe.ok
          /\ probe.op = "remove" =>
                /\ probe.ok => /\ present
                               /\ DOMAIN new = DOMAIN old \ {n}
                               /\ \A e \in DOMAIN new : new[e] = old[e]
                /\ ~present => ~probe.ok
          /\ ~probe.ok => probe.after = probe.before
          /\ \A other \in DOMAIN probe.before \ {probe.table} :
                probe.after[other] = probe.before[other]
          /\ probe.again = probe.after
          /\ ~probe.ok_again

\* alice, written in angle brackets and in capitals, is a VIP and not blocked:
\* she is added to the draft-block table and the second add is refused
C21_Witness ==
    /\ probe.fn = "sender_set"
    /\ probe.email = <<LT, "ALICE@EXAMPLE.COM", GT>>
    /\ probe.op = "add" /\ probe.table = "draft_blocked_senders"
    /\ DOMAIN probe.before.vip_senders = {Alice}
    /\ DOMAIN probe.before.draft_blocked_senders = {}
    /\ probe.ok
    /\ DOMAIN probe.after.draft_blocked_senders = {Alice}
    /\ ~probe.ok_again


\* C22: the counters partition the messages of a cycle: every pass of the loop
\* over a message adds one to exactly one of triaged_count, skipped_count and
\* error_count; a pass that adds to skipped_count or error_count adds nothing
\* to triaged_count, archived_count or drafted_count; and when a cycle commits
\* the three counters sum to emails_seen.
C22_CountersPartition ==
    [][/\ PassCompletes =>
            LET triaged == summary'.triaged_count - summary.triaged_count
                skipped == summary'.skipped_count - summary.skipped_count
                errors == summary'.error_count - summary.error_count
                archived == summary'.archived_count - summary.archived_count
                drafted == summary'.drafted_count - summary.drafted_count
            IN /\ {triaged, skipped, errors, archived, drafted} \subseteq {0, 1}
               /\ triaged + skipped + errors = 1
               /\ (skipped = 1 \/ errors = 1) => triaged + archived + drafted = 0
       /\ (pc = "running" /\ outcome'.kind = "committed") =>
            summary'.triaged_count + summary'.skipped_count + summary'.error_count
               = summary'.emails_seen]_vars

\* a committed cycle over two messages: one skipped as already drafted, one
\* whose move to the archive failed; nothing is counted as triaged
C22_Witness ==
    /\ outcome.kind = "committed"
    /\ summary.emails_seen = 2
    /\ summary.skipped_count = 1 /\ summary.error_count = 1
    /\ summary.triaged_count = 0 /\ summary.archived_count = 0 /\ summary.drafted_count = 0
    /\ \E i \in DOMAIN rpc : rpc[i].op = "move" /\ ~rpc[i].ok


\* the senders with an auto-promotion row in the tables
AutoPromoted(conn) ==
    {Lower(Strip(e)) : e \in {k \in DOMAIN conn.vip_senders :
                                 conn.vip_senders[k].source = VIP_SOURCE_AUTO}}

\* "VIP sender" is one of the reasons
HasVipReason(reason) == \E i \in DOMAIN reason : reason[i] = "VIP sender"

\* C23: the VIP set the classifier uses is the one read when the cycle starts.
\* A pass that auto-promotes the sender of its message m leaves that
\* in-memory set as it was, without the sender, although the row is now in
\* the table, and the decision recorded for m does not carry the reason
\* "VIP sender".  The set read at the start of a cycle holds every address of
\* the committed VIP table, so in a later cycle a message of a sender that was
\* auto-promoted before, when classified by the rules, is high with the
\* reason "VIP sender".
C23_PromotionVisibleNextCycle ==
    [][/\ (/\ PassCompletes
           /\ Len(summary'.emails) > Len(summary.emails)
           /\ Last(summary'.emails).status # "skipped"
           /\ Last(summary'.emails).auto_promoted_vip) =>
              /\ Last(summary'.emails).sender_email \notin locals.vip_senders
              /\ locals'.vip_senders = locals.vip_senders
              /\ Last(summary'.emails).sender_email \in AutoPromoted(state_conn')
              /\ ~HasVipReason(Last(summary'.emails).reason)
       /\ (pc = "idle" /\ pc' = "running") =>
              locals'.vip_senders = {Lower(Strip(e)) : e \in DOMAIN disk.vip_senders}
       /\ (/\ PassCompletes
           /\ Len(summary'.emails) > Len(summary.emails)
           /\ Last(summary'.emails).status # "skipped"
           /\ Last(summary'.emails).source # "codex"
           /\ Last(summary'.emails).sender_email \in AutoPromoted(cycle_start)) =>
              /\ Last(summary'.emails).priority = "high"
              /\ HasVipReason(Last(summary'.emails).reason)]_vars

\* the second cycle has classified a message of the sender that the first
\* cycle auto-promoted
C23_Witness ==
    /\ cycle_counter = 2
    /\ summary.emails # <<>>
    /\ Last(summary.emails).status # "skipped"
    /\ Last(summary.emails).sender_email = Alice
    /\ Alice \in AutoPromoted(cycle_start)
    /\ Alice \in AutoPromoted(disk)
    /\ Last(summary.emails).priority = "high"
    /\ HasVipReason(Last(summary.emails).reason)


\* the two paragraphs of the fallback reply for a priority
TemplateText(priority) ==
    IF priority = "high"
    THEN <<"Thanks for your email about the subject. I received this and I am prioritizing it now.",
           "", "I will follow up shortly with a full response.">>
    ELSE IF priority = "medium"
    THEN <<"Thanks for the note about the subject. I received it and will review it shortly.",
           "", "I will send a full response after I have gone through the details.">>
    ELSE <<"Thanks for sharing this update about the subject.",
           "", "I have received it and will follow up if anything is needed from my side.">>

\* C24: with a configured signature the fallback reply for a message of any
\* priority is the template text of that priority (the "Thanks for ..."
\* paragraph and the second paragraph), one blank line, and the signature.
C24_FallbackReplyKeepsTemplate ==
    (probe.fn = "compose_auto_reply" /\ probe.signature # <<>>)
    => probe.result = TemplateText(probe.priority) \o <<"">> \o probe.signature


\* C25: the run log is append-only, with one row for each cycle that commits:
\* every step leaves the committed rows as they were, in their order; a row
\* is added by exactly the steps that commit a cycle, one row each (a cycle
\* that is rolled back adds none); and the row added has the emails_seen,
\* triaged_count, drafted_count, skipped_count and error_count of that
\* cycle's summary and the mode of the cycle.
C25_RunLogAppendOnly ==
    [][/\ Len(disk'.triage_runs) \in {Len(disk.triage_runs), Len(disk.triage_runs) + 1}
       /\ SubSeq(disk'.triage_runs, 1, Len(disk.triage_runs)) = disk.triage_runs
       /\ (Len(disk'.triage_runs) = Len(disk.triage_runs) + 1)
             <=> (pc = "running" /\ outcome'.kind = "committed")
       /\ (pc' = "idle") => state_conn'.triage_runs = disk'.triage_runs
       /\ (pc = "running" /\ outcome'.kind = "committed") =>
             LET row == Last(disk'.triage_runs)
             IN /\ row.emails_seen = summary.emails_seen
                /\ row.triaged_count = summary.triaged_count
                /\ row.drafted_count = summary.drafted_count
                /\ row.skipped_count = summary.skipped_count
                /\ row.error_count = summary.error_count
                /\ row.run_at = summary.run_at
                /\ row.mode = IF summary.apply_mode THEN "apply" ELSE "dry-run"]_vars

\* two cycles, the first committed in apply mode with a failed action, the
\* second rolled back: the log has the one row of the first
C25_Witness ==
    /\ cycle_counter = 2
    /\ outcome.kind = "rolled_back"
    /\ Len(disk.triage_runs) = 1
    /\ disk.triage_runs[1].mode = "apply"
    /\ disk.triage_runs[1].emails_seen = 2
    /\ disk.triage_runs[1].error_count = 1
    /\ state_conn.triage_runs = disk.triage_runs


\* from the tables old to the tables new: no triage_state row is deleted,
\* every VIP row is kept as it is, a new VIP row has the source auto_frequency,
\* and the draft-block table is the same
OnlyGrows(old, new) ==
    /\ DOMAIN old.triage_state \subseteq DOMAIN new.triage_state
    /\ \A e \in DOMAIN old.vip_senders :
          e \in DOMAIN new.vip_senders /\ new.vip_senders[e] = old.vip_senders[e]
    /\ \A e \in DOMAIN new.vip_senders \ DOMAIN old.vip_senders :
          new.vip_senders[e].source = VIP_SOURCE_AUTO
    /\ new.draft_blocked_senders = old.draft_blocked_senders

\* C26: a step of a triage cycle (any step that is not an operator command)
\* never deletes a triage_state row, never removes or rewrites a VIP row, adds
\* VIP rows only with the source auto_frequency, and leaves the draft-block
\* table unchanged: this holds of the committed tables at every such step and
\* of the connection's view at every such step but the rollback, which puts
\* the view back to the committed tables; while a cycle runs its view has
\* grown in this way from the tables it started with.
C26_CycleOnlyGrowsTables ==
    [][(admin_ops' = admin_ops) =>
          /\ OnlyGrows(disk, disk')
          /\ (outcome'.kind # "rolled_back") => OnlyGrows(state_conn, state_conn')
          /\ (outcome'.kind = "rolled_back") => state_conn' = disk
          /\ (pc' = "running") => OnlyGrows(cycle_start', state_conn')]_vars

\* the operator made alice a VIP; then a committed cycle with threshold 1
\* stored a high-priority message of hers: her row still has the source manual
C26_Witness ==
    /\ admin_ops = 1 /\ cycle_counter = 1 /\ outcome.kind = "committed"
    /\ configuration.vip_frequency_threshold = 1
    /\ Alice \in DOMAIN disk.vip_senders
    /\ disk.vip_senders[Alice].source = VIP_SOURCE_MANUAL
    /\ \E id \in DOMAIN disk.triage_state :
          /\ disk.triage_state[id].sender_email = Alice
          /\ disk.triage_state[id].priority = "high"


\* the step skips the message at the head of the list as already drafted
SkipsHead ==
    /\ PassCompletes
    /\ Len(summary'.emails) = Len(summary.emails) + 1
    /\ Last(summary'.emails).status = "skipped"

\* C27: when an already-drafted message is skipped, its stored row changes in
\* last_seen_at and updated_at only (priority, actionable, reason, summary,
\* reply_text, drafted, draft_id, status, error, first_seen_at and the rest
\* stay), no other row changes, and the VIP table is untouched: no
\* auto-promotion takes place.
C27_SkipTouchesTimestampsOnly ==
    [][SkipsHead =>
          LET id == Head(locals.emails).id
              old == state_conn.triage_state[id]
              new == state_conn'.triage_state[id]
          IN /\ new = [old EXCEPT !.last_seen_at = new.last_seen_at,
                                  !.updated_at = new.updated_at]
             /\ new.last_seen_at = clock /\ new.updated_at = clock
             /\ DOMAIN state_conn'.triage_state = DOMAIN state_conn.triage_state
             /\ \A other \in DOMAIN state_conn.triage_state \ {id} :
                   state_conn'.triage_state[other] = state_conn.triage_state[other]
             /\ state_conn'.vip_senders = state_conn.vip_senders
             /\ state_conn'.draft_blocked_senders = state_conn.draft_blocked_senders
             /\ state_conn'.triage_runs = state_conn.triage_runs]_vars

\* the second cycle has skipped the message the first cycle drafted: the row
\* is as the first cycle wrote it, seen again at the time of the second
C27_Witness ==
    /\ cycle_counter = 2 /\ pc = "running"
    /\ summary.emails # <<>>
    /\ Last(summary.emails).status = "skipped"
    /\ Last(summary.emails).email_id = "m1"
    /\ state_conn.triage_state["m1"].status = "drafted"
    /\ state_conn.triage_state["m1"].draft_id # NoDraft
    /\ state_conn.triage_state["m1"].first_seen_at < state_conn.triage_state["m1"].last_seen_at
    /\ state_conn.triage_state["m1"].last_seen_at = clock


\* the cycle runs although the provider could not be initialised:
\* build_codex_client returns no client with use_codex on only when the
\* initialisation raised and codex_fallback_to_rules is on
InitFailedCycleRuns == pc = "running" /\ Automation.use_codex /\ ~locals.codex_client

\* C28: when the LLM provider fails at initialisation and
\* codex_fallback_to_rules is on, the cycle runs and every message it
\* processes is marked as a fallback: source rules_fallback, the reason
\* starts with "[rules-fallback]" and carries a codex_error annotation; when
\* codex_fallback_to_rules is off no cycle runs after a failed initialisation.
C28_InitFailureMarkedAsFallback ==
    [][/\ (/\ InitFailedCycleRuns /\ PassCompletes
           /\ Len(summary'.emails) > Len(summary.emails)
           /\ Last(summary'.emails).status # "skipped") =>
              /\ Last(summary'.emails).source = "rules_fallback"
              /\ Head(Last(summary'.emails).reason) = "[rules-fallback]"
              /\ \E i \in DOMAIN Last(summary'.emails).reason :
                    Last(summary'.emails).reason[i] = "; codex_error="
       /\ InitFailedCycleRuns => Automation.codex_fallback_to_rules]_vars


\* C29: a cycle never erases a recorded draft link: a pass over a message,
\* in apply or dry-run mode, with reprocess on or off, in which no
\* create-draft call succeeds for the message leaves the draft_id of its
\* stored row as it was, and the rows of the other messages keep theirs.
C29_DraftLinkNeverErased ==
    [][PassCompletes =>
          \A id \in DOMAIN state_conn.triage_state :
             (~\E i \in DOMAIN NewCalls :
                   /\ NewCalls[i].op = "create_draft"
                   /\ NewCalls[i].id = id
                   /\ NewCalls[i].ok)
             => /\ id \in DOMAIN state_conn'.triage_state
                /\ state_conn'.triage_state[id].draft_id
                      = state_conn.triage_state[id].draft_id]_vars


\* the step makes a create-draft call for the message, which fails / succeeds
DraftFailsFor(id) ==
    \E i \in DOMAIN NewCalls :
       NewCalls[i].op = "create_draft" /\ NewCalls[i].id = id /\ ~NewCalls[i].ok

DraftSucceedsFor(id) ==
    \E i \in DOMAIN NewCalls :
       NewCalls[i].op = "create_draft" /\ NewCalls[i].id = id /\ NewCalls[i].ok

\* the step completes the pass over a message with an id that has a stored row
PassOverStored ==
    /\ PassCompletes
    /\ Head(locals.emails).id # ""
    /\ HasRow(state_conn, Head(locals.emails).id)

\* C30: a failed draft creation is retried.  After a pass in which
\* create-draft fails for m the stored row of m has status "error" and no
\* draft_id; a later pass over m with such a row does not skip it, and when
\* its create-draft call succeeds the row has status "drafted" and a
\* draft_id; and a pass with reprocess off over m with a row of status
\* "drafted" and a draft_id skips it, making no call.
C30_FailedDraftIsRetried ==
    [][/\ (PassCompletes /\ Head(locals.emails).id # ""
             /\ DraftFailsFor(Head(locals.emails).id)) =>
              /\ state_conn'.triage_state[Head(locals.emails).id].status = "error"
              /\ state_conn'.triage_state[Head(locals.emails).id].draft_id = NoDraft
       /\ (/\ PassOverStored
           /\ state_conn.triage_state[Head(locals.emails).id].status = "error"
           /\ state_conn.triage_state[Head(locals.emails).id].draft_id = NoDraft) =>
              /\ Last(summary'.emails).status # "skipped"
              /\ DraftSucceedsFor(Head(locals.emails).id) =>
                    /\ state_conn'.triage_state[Head(locals.emails).id].status = "drafted"
                    /\ state_conn'.triage_state[Head(locals.emails).id].draft_id # NoDraft
       /\ (/\ PassOverStored
           /\ state_conn.triage_state[Head(locals.emails).id].status = "drafted"
           /\ state_conn.triage_state[Head(locals.emails).id].draft_id # NoDraft
           /\ ~locals.reprocess) =>
              /\ Last(summary'.emails).status = "skipped"
              /\ NewCalls = <<>>]_vars

====
